---------------------------- MODULE Spec2Model ----------------------------
(***************************************************************************)
(* PhishGuard: the content-risk scoring engine (ai-engine.js, scanner.js, *)
(* helpers.js, constants.js) as a state machine.  JavaScript strings are   *)
(* TLA+ strings; the string primitives the code uses (includes, split,     *)
(* toLowerCase, trim, regular-expression tests) are defined below by what  *)
(* they compute.                                                           *)
(***************************************************************************)
EXTENDS Integers, Sequences, FiniteSets, TLC

(***************************************************************************)
(* JavaScript string primitives                                            *)
(***************************************************************************)
Null == "<null>"

Min(a, b) == IF a <= b THEN a ELSE b

CharAt(s, i) == SubSeq(s, i, i)

\* String.prototype.includes
Includes(s, k) ==
    \/ Len(k) = 0
    \/ \E i \in 1..(Len(s) - Len(k) + 1) : SubSeq(s, i, i + Len(k) - 1) = k

StartsWith(s, k) == Len(k) <= Len(s) /\ SubSeq(s, 1, Len(k)) = k

EndsWith(s, k) == Len(k) <= Len(s) /\ SubSeq(s, Len(s) - Len(k) + 1, Len(s)) = k

\* 1-based index of the first occurrence of k in s at or after from; 0 if none
IndexFrom(s, k, from) ==
    LET hits == {i \in from..(Len(s) - Len(k) + 1) : SubSeq(s, i, i + Len(k) - 1) = k}
    IN  IF hits = {} THEN 0 ELSE CHOOSE i \in hits : \A j \in hits : i <= j

LastIndexOf(s, k) ==
    LET hits == {i \in 1..(Len(s) - Len(k) + 1) : SubSeq(s, i, i + Len(k) - 1) = k}
    IN  IF hits = {} THEN 0 ELSE CHOOSE i \in hits : \A j \in hits : i >= j

UpperLetters == "ABCDEFGHIJKLMNOPQRSTUVWXYZ"

LowerLetters == "abcdefghijklmnopqrstuvwxyz"

Digits == "0123456789"

CharsOf(s) == {CharAt(s, i) : i \in 1..Len(s)}

UpperSet == CharsOf(UpperLetters)

LowerSet == CharsOf(LowerLetters)

DigitSet == CharsOf(Digits)

IsUpper(c) == c \in UpperSet

IsLower(c) == c \in LowerSet

IsDigit(c) == c \in DigitSet

IsLetter(c) == IsUpper(c) \/ IsLower(c)

IsSpace(c) == c \in {" ", "\n", "\t", "\r"}

\* The lower-case letter of each upper-case one
LowerOf == [c \in UpperSet |-> CharAt(LowerLetters, IndexFrom(UpperLetters, c, 1))]

LowerChar(c) == IF IsUpper(c) THEN LowerOf[c] ELSE c

\* Every character lower-cased; the string is halved so that the evaluation
\* stays shallow
RECURSIVE LowerEach(_)
LowerEach(s) ==
    IF Len(s) = 0 THEN ""
    ELSE IF Len(s) = 1 THEN LowerChar(s)
    ELSE LowerEach(SubSeq(s, 1, Len(s) \div 2))
         \o LowerEach(SubSeq(s, Len(s) \div 2 + 1, Len(s)))

\* String.prototype.toLowerCase (ASCII): a string with no upper-case letter
\* is its own lower case
ToLowerCase(s) ==
    IF \E i \in 1..Len(s) : IsUpper(CharAt(s, i)) THEN LowerEach(s) ELSE s

RECURSIVE TrimLeft(_)
TrimLeft(s) ==
    IF Len(s) > 0 /\ IsSpace(CharAt(s, 1)) THEN TrimLeft(SubSeq(s, 2, Len(s))) ELSE s

RECURSIVE TrimRight(_)
TrimRight(s) ==
    IF Len(s) > 0 /\ IsSpace(CharAt(s, Len(s)))
    THEN TrimRight(SubSeq(s, 1, Len(s) - 1)) ELSE s

\* String.prototype.trim
Trim(s) == TrimRight(TrimLeft(s))

\* String.prototype.split(sep): the sequence of pieces
RECURSIVE Split(_, _)
Split(s, sep) ==
    LET i == IndexFrom(s, sep, 1)
    IN  IF i = 0 THEN <<s>>
        ELSE <<SubSeq(s, 1, i - 1)>> \o Split(SubSeq(s, i + Len(sep), Len(s)), sep)

\* Array.prototype.join(sep)
RECURSIVE Join(_, _)
Join(parts, sep) ==
    IF Len(parts) = 0 THEN ""
    ELSE IF Len(parts) = 1 THEN parts[1]
    ELSE parts[1] \o sep \o Join(Tail(parts), sep)

Last(seq) == seq[Len(seq)]

\* Array.prototype.slice(0, -1)
AllButLast(seq) == SubSeq(seq, 1, Len(seq) - 1)

\* s.replace(/[^a-z]/g, '')
RECURSIVE KeepLower(_)
KeepLower(s) ==
    IF Len(s) = 0 THEN ""
    ELSE IF Len(s) = 1 THEN (IF IsLower(s) THEN s ELSE "")
    ELSE KeepLower(SubSeq(s, 1, Len(s) \div 2))
         \o KeepLower(SubSeq(s, Len(s) \div 2 + 1, Len(s)))

\* s.replace(/\s/g, '')
RECURSIVE DropSpaces(_)
DropSpaces(s) ==
    IF Len(s) = 0 THEN ""
    ELSE IF Len(s) = 1 THEN (IF IsSpace(s) THEN "" ELSE s)
    ELSE DropSpaces(SubSeq(s, 1, Len(s) \div 2))
         \o DropSpaces(SubSeq(s, Len(s) \div 2 + 1, Len(s)))

SeqContains(seq, x) == \E i \in 1..Len(seq) : seq[i] = x

\* [...new Set(seq)]: first occurrences, in order
RECURSIVE DedupFrom(_, _)
DedupFrom(seq, i) ==
    IF i > Len(seq) THEN <<>>
    ELSE (IF SeqContains(SubSeq(seq, 1, i - 1), seq[i]) THEN <<>> ELSE <<seq[i]>>)
         \o DedupFrom(seq, i + 1)

Dedup(seq) == DedupFrom(seq, 1)

RECURSIVE Repeat(_, _)
Repeat(s, n) ==
    IF n <= 0 THEN ""
    ELSE IF n = 1 THEN s
    ELSE Repeat(s, n \div 2) \o Repeat(s, n - n \div 2)


(***************************************************************************)
(* constants.js: the pattern tables the link and sender analyzers read     *)
(***************************************************************************)
SUSPICIOUS_TLDS ==
    <<".xyz", ".top", ".club", ".online", ".site",
      ".icu", ".buzz", ".tk", ".ml", ".ga",
      ".cf", ".gq", ".win", ".loan", ".click",
      ".link", ".work", ".date", ".racing",
      ".download", ".stream", ".bid">>

TRUSTED_DOMAINS ==
    <<"google.com", "gmail.com", "microsoft.com",
      "outlook.com", "apple.com", "amazon.com",
      "paypal.com", "chase.com", "bankofamerica.com",
      "wellsfargo.com", "usps.com", "fedex.com",
      "ups.com", "irs.gov", "sbi.co.in",
      "hdfcbank.com", "icicibank.com", "rbi.org.in",
      "gov.in", "india.gov.in">>

\* The two variants written with a non-ASCII letter ("amazón", "sbì") are
\* left out: a hostname returned by getDomain is ASCII (punycode), so they
\* match no input.
TYPOSQUAT_MAP ==
    << [real |-> "google",    fakes |-> <<"g00gle", "gogle", "googl", "gooogle", "googIe">>],
       [real |-> "amazon",    fakes |-> <<"amaz0n", "amazn", "amazom", "arnazon">>],
       [real |-> "paypal",    fakes |-> <<"paypa1", "paypai", "paypaI", "peypal", "paypa">>],
       [real |-> "apple",     fakes |-> <<"app1e", "appie", "appIe", "aple", "appl">>],
       [real |-> "microsoft", fakes |-> <<"micr0soft", "mircosoft", "microsft", "microsoft">>],
       [real |-> "facebook",  fakes |-> <<"faceb00k", "facebok", "facbook">>],
       [real |-> "netflix",   fakes |-> <<"netf1ix", "netfIix", "netflix">>],
       [real |-> "sbi",       fakes |-> <<"sb1">>],
       [real |-> "hdfc",      fakes |-> <<"hdf c", "hdtc">> ] >>

SUSPICIOUS_PATH_WORDS ==
    <<"secure", "login", "verify", "update", "confirm", "account", "banking", "signin">>

URL_SHORTENERS ==
    <<"bit.ly", "tinyurl.com", "t.co", "goo.gl",
      "ow.ly", "is.gd", "buff.ly", "adf.ly",
      "bl.ink", "lnkd.in", "rb.gy", "shorturl.at",
      "cutt.ly", "t.ly">>

(***************************************************************************)
(* helpers.js                                                              *)
(***************************************************************************)
\* Characters that end the authority of an http(s) URL
AuthorityEnd == {"/", "?", "#", "\\"}

\* Length of the authority: up to the first character that ends it
AuthorityLen(s) ==
    LET ends == {i \in 1..Len(s) : CharAt(s, i) \in AuthorityEnd}
    IN  IF ends = {} THEN Len(s) ELSE (CHOOSE i \in ends : \A j \in ends : i <= j) - 1

\* Code points the URL parser rejects in a host
ForbiddenHostChars == {" ", "<", ">", "[", "]", "^", "|", "%", "@", ":"}

\* new URL(url).hostname for the URLs a message carries: http(s)://[user@]host[:port][/...].
\* Anything else makes the constructor throw. The parse goes in four steps.

\* What follows the scheme of a lower-cased URL, Null for another scheme
AfterScheme(low) ==
    IF StartsWith(low, "http://") THEN SubSeq(low, 8, Len(low))
    ELSE IF StartsWith(low, "https://") THEN SubSeq(low, 9, Len(low))
    ELSE Null

\* host[:port] of an authority: what follows its last "@"
HostPortOf(auth) == SubSeq(auth, LastIndexOf(auth, "@") + 1, Len(auth))

\* The host once host and port are split, Null when either is rejected
CheckedHost(host, port) ==
    IF Len(host) = 0 THEN Null
    ELSE IF \E i \in 1..Len(host) : CharAt(host, i) \in ForbiddenHostChars THEN Null
    ELSE IF \E i \in 1..Len(port) : ~IsDigit(CharAt(port, i)) THEN Null
    ELSE host

\* host[:port] split at the colon at index col (0: no port)
SplitHostPort(hp, col) ==
    IF col = 0 THEN CheckedHost(hp, "")
    ELSE CheckedHost(SubSeq(hp, 1, col - 1), SubSeq(hp, col + 1, Len(hp)))

HostnameOfRest(rest) ==
    IF rest = Null THEN Null
    ELSE SplitHostPort(HostPortOf(SubSeq(rest, 1, AuthorityLen(rest))),
                       IndexFrom(HostPortOf(SubSeq(rest, 1, AuthorityLen(rest))), ":", 1))

ParseHostname(url) == HostnameOfRest(AfterScheme(ToLowerCase(url)))

LowerOrNull(h) == IF h = Null THEN Null ELSE ToLowerCase(h)

\* getDomain: the lower-cased hostname, or null when the URL does not parse
getDomain(url) == LowerOrNull(ParseHostname(url))

\* One row of the dp table of levenshteinDistance: row i from row i-1.
\* prev[j+1] = dp[i-1][j]; the result's [j+1] = dp[i][j].
RECURSIVE LevRow(_, _, _, _, _)
LevRow(prev, str1, str2, i, acc) ==
    LET j == Len(acc)
    IN  IF j > Len(str2) THEN acc
        ELSE LET cost == IF CharAt(str1, i) = CharAt(str2, j) THEN 0 ELSE 1
                 v == Min(Min(prev[j + 1] + 1, acc[j] + 1), prev[j] + cost)
             IN  LevRow(prev, str1, str2, i, Append(acc, v))

RECURSIVE LevRows(_, _, _, _)
LevRows(prev, str1, str2, i) ==
    IF i > Len(str1) THEN prev
    ELSE LevRows(LevRow(prev, str1, str2, i, <<i>>), str1, str2, i + 1)

levenshteinDistance(str1, str2) ==
    LevRows([j \in 1..(Len(str2) + 1) |-> j - 1], str1, str2, 1)[Len(str2) + 1]


(***************************************************************************)
(* scanner.js: PhishScanner                                                *)
(***************************************************************************)
\* \d{1,3} (\. \d{1,3}){n-1} matches at pos
RECURSIVE MatchOctets(_, _, _)
MatchOctets(s, pos, n) ==
    \E k \in 1..3 :
        /\ pos + k - 1 <= Len(s)
        /\ \A d \in 0..(k - 1) : IsDigit(CharAt(s, pos + d))
        /\ \/ n = 1
           \/ /\ pos + k <= Len(s)
              /\ CharAt(s, pos + k) = "."
              /\ MatchOctets(s, pos + k + 1, n - 1)

\* URL_RED_FLAGS.IP_ADDRESS.test(url): /https?:\/\/\d{1,3}\.\d{1,3}\.\d{1,3}\.\d{1,3}/
IP_ADDRESS_test(url) ==
    \E i \in 1..Len(url) :
        \/ i + 6 <= Len(url) /\ SubSeq(url, i, i + 6) = "http://" /\ MatchOctets(url, i + 7, 4)
        \/ i + 7 <= Len(url) /\ SubSeq(url, i, i + 7) = "https://" /\ MatchOctets(url, i + 8, 4)

\* URL_RED_FLAGS.SUSPICIOUS_PATHS.test(url): /\/(secure|login|...)/i
SUSPICIOUS_PATHS_test(url) ==
    \E w \in 1..Len(SUSPICIOUS_PATH_WORDS) :
        Includes(ToLowerCase(url), "/" \o SUSPICIOUS_PATH_WORDS[w])

\* URL_RED_FLAGS.AT_SYMBOL.test(url)
AT_SYMBOL_test(url) == Includes(url, "@")

IsHex(c) == IsDigit(c) \/ (Len(c) = 1 /\ Includes("abcdefABCDEF", c))

\* (url.match(/%[0-9a-f]{2}/gi) || []).length
\* The matches start at a "%" and "%" is no hex digit, so no two overlap
encodedCount(url) ==
    Cardinality({i \in 1..(Len(url) - 2) :
                    /\ CharAt(url, i) = "%"
                    /\ IsHex(CharAt(url, i + 1))
                    /\ IsHex(CharAt(url, i + 2))})

\* The allow-list matched by equality only, its subdomains left out
isTrustedDomainExact(domain) == SeqContains(TRUSTED_DOMAINS, domain)

isTrustedDomain(domain) ==
    \E t \in 1..Len(TRUSTED_DOMAINS) :
        domain = TRUSTED_DOMAINS[t] \/ EndsWith(domain, "." \o TRUSTED_DOMAINS[t])

isURLShortener(domain) == SeqContains(URL_SHORTENERS, domain)

\* domain.split(".").slice(0, -1).join(".").toLowerCase()
domainBase(domain) == ToLowerCase(Join(AllButLast(Split(domain, ".")), "."))

\* "Direct fake match" for one entry of the map
FakeMatch(base, entry) ==
    \E f \in 1..Len(entry.fakes) : Includes(base, entry.fakes[f])

\* The distance check stopping at one edit
DistanceMatchOne(base, entry) ==
    /\ Includes(base, SubSeq(entry.real, 1, Min(3, Len(entry.real))))
    /\ levenshteinDistance(base, entry.real) = 1

\* "Levenshtein distance check" for one entry of the map
DistanceMatch(base, entry) ==
    /\ Includes(base, SubSeq(entry.real, 1, Min(3, Len(entry.real))))
    /\ LET distance == levenshteinDistance(base, entry.real)
       IN  distance > 0 /\ distance <= 2

\* the for loop of _checkTyposquatting, from entry i on
RECURSIVE TyposquatFrom(_, _)
TyposquatFrom(base, i) ==
    IF i > Len(TYPOSQUAT_MAP) THEN [isTyposquat |-> FALSE, intendedDomain |-> Null]
    ELSE IF FakeMatch(base, TYPOSQUAT_MAP[i]) \/ DistanceMatch(base, TYPOSQUAT_MAP[i])
         THEN [isTyposquat |-> TRUE, intendedDomain |-> TYPOSQUAT_MAP[i].real]
         ELSE TyposquatFrom(base, i + 1)

checkTyposquatting(domain) == TyposquatFrom(domainBase(domain), 1)

\* The labels counted with the registrable name taken for one label
subdomainCountOff(domain) == Len(Split(domain, ".")) - 1

\* domain.split(".").length - 2
subdomainCount(domain) == Len(Split(domain, ".")) - 2

\* "." + domain.split(".").pop()
tldOf(domain) == "." \o Last(Split(domain, "."))

\* Flag texts are the code's, with its dash and emoji characters written in ASCII.
TyposquatFlag(real) == "Possible typosquatting: looks like \"" \o real \o "\""

\* Checks 2..10 of analyzeURL in order: whether each fires, its points, its flag;
\* typo is what _checkTyposquatting(domain) returned
URLChecksWith(url, domain, typo) ==
    << [hit |-> IP_ADDRESS_test(url), pts |-> 40,
        flag |-> "Uses IP address instead of domain name"],
       [hit |-> SeqContains(SUSPICIOUS_TLDS, tldOf(domain)), pts |-> 25,
        flag |-> "Suspicious domain extension: " \o tldOf(domain)],
       [hit |-> subdomainCount(domain) >= 3, pts |-> 20,
        flag |-> "Excessive subdomains (" \o ToString(subdomainCount(domain))
                 \o " levels deep)"],
       [hit |-> typo.isTyposquat, pts |-> 35,
        flag |-> TyposquatFlag(typo.intendedDomain)],
       [hit |-> isURLShortener(domain), pts |-> 15,
        flag |-> "URL shortener detected - destination hidden"],
       [hit |-> SUSPICIOUS_PATHS_test(url), pts |-> 15,
        flag |-> "URL path contains login/verification keywords"],
       [hit |-> AT_SYMBOL_test(url), pts |-> 30,
        flag |-> "Contains @ symbol - may redirect to different site"],
       [hit |-> Len(url) > 150, pts |-> 10,
        flag |-> "Unusually long URL"],
       [hit |-> encodedCount(url) > 3, pts |-> 15,
        flag |-> "Contains multiple encoded characters (obfuscation)"] >>

URLChecks(url, domain) == URLChecksWith(url, domain, checkTyposquatting(domain))

\* result.score += pts over the checks that fire
RECURSIVE SumHits(_, _)
SumHits(checks, i) ==
    IF i > Len(checks) THEN 0
    ELSE (IF checks[i].hit THEN checks[i].pts ELSE 0) + SumHits(checks, i + 1)

\* Checks that add their points and say nothing
FlagsOfHitsSilent(checks, i) == <<>>

\* result.flags.push(flag) over the checks that fire
RECURSIVE FlagsOfHits(_, _)
FlagsOfHits(checks, i) ==
    IF i > Len(checks) THEN <<>>
    ELSE (IF checks[i].hit THEN <<checks[i].flag>> ELSE <<>>) \o FlagsOfHits(checks, i + 1)

InvalidURLFlag == "Invalid or malformed URL"

TrustedFlag == "Verified trusted domain"

\* The checks summed with the closing Math.min left out
ScoreOfChecksUncapped(checks) ==
    [score |-> SumHits(checks, 1), flags |-> FlagsOfHits(checks, 1)]

\* result.score = Math.min(result.score, 100) closes the checks
ScoreOfChecks(checks) ==
    [score |-> Min(SumHits(checks, 1), 100), flags |-> FlagsOfHits(checks, 1)]

\* An analysis that goes on to the path check after the hostname is not found
analyzeParsedURLOn(url, domain) ==
    IF domain = Null
    THEN [score |-> IF SUSPICIOUS_PATHS_test(url) THEN 65 ELSE 50,
          flags |-> <<InvalidURLFlag>>]
    ELSE IF isTrustedDomain(domain) THEN [score |-> 0, flags |-> <<TrustedFlag>>]
    ELSE ScoreOfChecks(URLChecks(url, domain))

\* analyzeURL once getDomain has returned domain
analyzeParsedURL(url, domain) ==
    IF domain = Null THEN [score |-> 50, flags |-> <<InvalidURLFlag>>]
    ELSE IF isTrustedDomain(domain) THEN [score |-> 0, flags |-> <<TrustedFlag>>]
    ELSE ScoreOfChecks(URLChecks(url, domain))

analyzeURL(url) ==
    IF url = "" THEN [score |-> 0, flags |-> <<>>]
    ELSE analyzeParsedURL(url, getDomain(url))

truncateURL(url) == IF Len(url) <= 60 THEN url ELSE SubSeq(url, 1, 60) \o "..."

\* A turn that keeps the score of the URL analysed last
AddAnalysisLast(acc, url, analysis) ==
    [worstScore  |-> analysis.score,
     allFlags    |-> acc.allFlags \o analysis.flags,
     flaggedURLs |-> IF analysis.score > 0
                     THEN Append(acc.flaggedURLs,
                                 [url |-> truncateURL(url),
                                  score |-> analysis.score,
                                  flags |-> analysis.flags])
                     ELSE acc.flaggedURLs]

\* One turn of the forEach of analyzeAllURLs: (worstScore, allFlags, flaggedURLs)
\* after the analysis of url
AddAnalysis(acc, url, analysis) ==
    [worstScore  |-> IF analysis.score > acc.worstScore
                     THEN analysis.score ELSE acc.worstScore,
     allFlags    |-> acc.allFlags \o analysis.flags,
     flaggedURLs |-> IF analysis.score > 0
                     THEN Append(acc.flaggedURLs,
                                 [url |-> truncateURL(url),
                                  score |-> analysis.score,
                                  flags |-> analysis.flags])
                     ELSE acc.flaggedURLs]

\* the forEach of analyzeAllURLs, from url i on
RECURSIVE AllURLsFrom(_, _, _)
AllURLsFrom(urls, i, acc) ==
    IF i > Len(urls) THEN acc
    ELSE AllURLsFrom(urls, i + 1, AddAnalysis(acc, urls[i], analyzeURL(urls[i])))

AllURLsResult(urls, r) ==
    [score |-> r.worstScore, flags |-> Dedup(r.allFlags),
     urlCount |-> Len(urls), flaggedURLs |-> r.flaggedURLs]

\* The early return carries no flaggedURLs field.
analyzeAllURLs(urls) ==
    IF Len(urls) = 0 THEN [score |-> 0, flags |-> <<>>, urlCount |-> 0]
    ELSE AllURLsResult(urls, AllURLsFrom(urls, 1,
                 [worstScore |-> 0, allFlags |-> <<>>, flaggedURLs |-> <<>>]))

FREE_PROVIDERS ==
    <<"gmail.com", "yahoo.com", "hotmail.com",
      "outlook.com", "aol.com", "mail.com",
      "protonmail.com", "yandex.com">>

ORG_KEYWORDS ==
    <<"bank", "paypal", "amazon", "microsoft",
      "apple", "google", "irs", "government",
      "support", "security", "admin">>

COMPANY_NAMES ==
    <<"amazon", "paypal", "apple", "microsoft", "google",
      "netflix", "chase", "wells fargo", "bank of america",
      "sbi", "hdfc", "icici", "rbi">>

\* The piece after the one asked for
PieceOrNullShifted(parts, n) == IF Len(parts) >= n + 1 THEN parts[n + 1] ELSE Null

\* parts[n-1] of a JavaScript array: undefined (Null) past its end
PieceOrNull(parts, n) == IF Len(parts) >= n THEN parts[n] ELSE Null

\* email.split("@")[1]: the second piece, undefined (Null) when there is none
SecondPiece(s, sep) == PieceOrNull(Split(s, sep), 2)

\* the test of the for loop of _checkSenderMismatch for one company name
NameMismatch(displayLower, emailDomain, companyClean) ==
    Includes(displayLower, companyClean) /\ ~Includes(emailDomain, companyClean)

MismatchAmong(displayLower, emailDomain) ==
    \E c \in 1..Len(COMPANY_NAMES) :
        NameMismatch(displayLower, emailDomain, DropSpaces(COMPANY_NAMES[c]))

checkSenderMismatch(email, displayName) ==
    MismatchAmong(KeepLower(ToLowerCase(displayName)),
                  ToLowerCase(Split(SecondPiece(email, "@"), ".")[1]))

\* /\d{3,}/.test(s)
HasDigitRun3(s) ==
    \E i \in 1..(Len(s) - 2) : \A d \in 0..2 : IsDigit(CharAt(s, i + d))

SenderMismatchFlag(displayName, email) ==
    "Sender mismatch: displays as \"" \o displayName \o "\" but email is " \o email

\* Checks 1..5 of analyzeSender; displayName is Null when absent
SenderChecks(email, domain, displayName) ==
    LET named == displayName # Null /\ displayName # ""
        dn    == IF named THEN displayName ELSE ""
    IN  << [hit |-> named /\ checkSenderMismatch(email, dn), pts |-> 30,
            flag |-> SenderMismatchFlag(dn, email)],
           [hit |-> /\ SeqContains(FREE_PROVIDERS, domain)
                    /\ named
                    /\ \E k \in 1..Len(ORG_KEYWORDS) :
                           Includes(ToLowerCase(dn), ORG_KEYWORDS[k]),
            pts |-> 35,
            flag |-> "\"" \o dn \o "\" using free email (" \o domain
                     \o ") - likely impersonation"],
           [hit |-> SeqContains(SUSPICIOUS_TLDS, tldOf(domain)), pts |-> 20,
            flag |-> "Sender domain uses suspicious extension: " \o tldOf(domain)],
           [hit |-> HasDigitRun3(Join(AllButLast(Split(domain, ".")), ".")), pts |-> 15,
            flag |-> "Sender domain contains excessive numbers"],
           [hit |-> Len(domain) > 30, pts |-> 10,
            flag |-> "Unusually long sender domain"] >>

InvalidSenderFlag == "Invalid sender email format"

\* An analysis that still charges a display name when the domain is missing
analyzeSenderAddressOn(email, domain, displayName) ==
    IF domain = Null \/ domain = ""
    THEN [score |-> IF displayName = Null THEN 30 ELSE 60, flags |-> <<InvalidSenderFlag>>]
    ELSE ScoreOfChecks(SenderChecks(email, domain, displayName))

\* analyzeSender once the address is trimmed and split
analyzeSenderAddress(email, domain, displayName) ==
    IF domain = Null \/ domain = ""
    THEN [score |-> 30, flags |-> <<InvalidSenderFlag>>]
    ELSE ScoreOfChecks(SenderChecks(email, domain, displayName))

\* senderEmail and displayName are Null when the field is absent
analyzeSender(senderEmail, displayName) ==
    IF senderEmail = Null \/ senderEmail = "" THEN [score |-> 0, flags |-> <<>>]
    ELSE analyzeSenderAddress(Trim(ToLowerCase(senderEmail)),
                              SecondPiece(Trim(ToLowerCase(senderEmail)), "@"),
                              displayName)


(***************************************************************************)
(* constants.js: the keyword tables the text analyzer and the classifier   *)
(* read                                                                    *)
(***************************************************************************)
URGENCY_KEYWORDS ==
    <<
      "act now", "act immediately", "urgent action required", "immediate attention",
      "expires today", "last chance", "limited time", "only hours left", "deadline",
      "suspend", "suspended", "will be closed", "within 24 hours", "within 48 hours",
      "account will be locked", "account compromised", "unauthorized access",
      "unusual activity", "verify immediately", "confirm your identity",
      "failure to respond", "legal action" >>

THREAT_KEYWORDS ==
    <<
      "legal action", "police report", "court order", "arrest warrant",
      "criminal charges", "lawsuit", "penalty", "fine", "prosecution",
      "account terminated", "permanently banned", "report to authorities",
      "federal investigation" >>

FINANCIAL_KEYWORDS ==
    <<
      "congratulations you've won", "you are selected", "claim your prize",
      "lottery winner", "million dollars", "inheritance", "beneficiary",
      "unclaimed funds", "wire transfer", "western union", "moneygram",
      "bitcoin payment", "cryptocurrency", "investment opportunity",
      "guaranteed returns", "double your money", "risk free", "credit card required",
      "ssn", "social security", "bank account details", "routing number", "pin number",
      "cvv" >>

IMPERSONATION_KEYWORDS ==
    <<
      "dear customer", "dear user", "dear member", "valued customer", "account holder",
      "we have detected", "we noticed", "your account has been", "as per our records",
      "security department", "fraud department", "technical support", "helpdesk",
      "official notice", "important notification" >>

ACTION_KEYWORDS ==
    <<
      "click here", "click below", "click the link", "log in here", "sign in",
      "verify your account", "update your information", "confirm your details",
      "download attachment", "open attached", "fill out the form", "submit your",
      "reply with your", "send your details", "call this number",
      "contact us immediately" >>

HINGLISH_KEYWORDS ==
    <<
      "aapka account", "aapka khata", "block ho jayega", "band ho jayega",
      "kyc update", "kyc verification", "aadhar card", "aadhaar", "pan card link",
      "pan card update", "upi id", "paytm kyc", "phonepe", "google pay", "sbi bank",
      "rbi notice", "income tax notice", "gst notice", "custom duty",
      "parcel roka gaya", "lottery jeet", "prize jeeta", "crore rupees", "lakh rupees" >>

GRAMMAR_INDICATORS ==
    <<
      "kindly do the needful", "revert back", "please to", "we was", "you has been",
      "your been selected", "informations", "dears", "sir/madam", "respected sir",
      "aborting your", "aborting the transaction" >>

\* SCAM_CONSTANTS.BRAND_KEYWORDS is read by analyzeText and defined nowhere:
\* _findKeywordMatches takes "keywords || []".
BRAND_KEYWORDS == <<>>

\* Object.entries(SCAM_CATEGORIES), in insertion order.  The table gives no
\* severity, minMatch or weights: the classifier reads "cat.severity || 0",
\* "minMatch || 2" and "weights?.[kw] || 1"; 0 stands for an absent number.
\* The icon glyphs are left out.
\* The table carries no severity, minMatch or weights field: 0 and the empty
\* list stand for the undefined the code reads there
SCAM_CATEGORIES ==
    <<
       [key |-> "BANKING", label |-> "Banking/Financial Scam", severity |-> 0, minMatch |-> 0, weights |-> <<>>,
        keywords |-> <<"bank", "account", "credit", "debit", "transaction", "payment", "transfer">>],
       [key |-> "DELIVERY", label |-> "Package/Delivery Scam", severity |-> 0, minMatch |-> 0, weights |-> <<>>,
        keywords |-> <<"package", "delivery", "shipment", "tracking", "fedex", "ups", "amazon", "order">>],
       [key |-> "JOB", label |-> "Job/Employment Scam", severity |-> 0, minMatch |-> 0, weights |-> <<>>,
        keywords |-> <<"job offer", "work from home", "earn money", "hiring", "salary", "income", "opportunity">>],
       [key |-> "GOVERNMENT", label |-> "Government Impersonation", severity |-> 0, minMatch |-> 0, weights |-> <<>>,
        keywords |-> <<"irs", "tax", "government", "court", "legal", "police", "federal", "social security">>],
       [key |-> "LOTTERY", label |-> "Lottery/Prize Scam", severity |-> 0, minMatch |-> 0, weights |-> <<>>,
        keywords |-> <<"winner", "prize", "lottery", "congratulations", "selected", "lucky", "claim">>],
       [key |-> "ROMANCE", label |-> "Romance/Dating Scam", severity |-> 0, minMatch |-> 0, weights |-> <<>>,
        keywords |-> <<"lonely", "love", "relationship", "dating", "beautiful", "handsome", "meet me">>],
       [key |-> "TECH_SUPPORT", label |-> "Tech Support Scam", severity |-> 0, minMatch |-> 0, weights |-> <<>>,
        keywords |-> <<"virus detected", "computer infected", "tech support", "microsoft", "apple support", "security alert">>],
       [key |-> "CRYPTO", label |-> "Cryptocurrency Scam", severity |-> 0, minMatch |-> 0, weights |-> <<>>,
        keywords |-> <<"bitcoin", "ethereum", "crypto", "blockchain", "nft", "token", "wallet", "mining">>] >>

(***************************************************************************)
(* helpers.js: anonymizeText                                               *)
(***************************************************************************)
\* Length of the run of characters satisfying the class, starting at i
RECURSIVE LowerRunLen(_, _)
LowerRunLen(s, i) ==
    IF i <= Len(s) /\ IsLower(CharAt(s, i)) THEN 1 + LowerRunLen(s, i + 1) ELSE 0

RECURSIVE SpaceRunLen(_, _)
SpaceRunLen(s, i) ==
    IF i <= Len(s) /\ IsSpace(CharAt(s, i)) THEN 1 + SpaceRunLen(s, i + 1) ELSE 0

GREETINGS == <<"Hi", "Hello", "Dear">>

\* /(Hi|Hello|Dear)\s+([A-Z][a-z]+)/ matched at position i with greeting g:
\* the position after the match, or 0
GreetingMatchEnd(s, i, g) ==
    IF i + Len(g) - 1 <= Len(s) /\ SubSeq(s, i, i + Len(g) - 1) = g
    THEN LET ws == SpaceRunLen(s, i + Len(g))
             up == i + Len(g) + ws
             lo == LowerRunLen(s, up + 1)
         IN  IF ws >= 1 /\ up <= Len(s) /\ IsUpper(CharAt(s, up)) /\ lo >= 1
             THEN up + 1 + lo ELSE 0
    ELSE 0

\* Redaction 4: .replace(/(Hi|Hello|Dear)\s+([A-Z][a-z]+)/g, '$1 [REDACTED_NAME]')
\* The greetings of the alternation that match at position i
GreetingsAt(s, i) == {g \in 1..Len(GREETINGS) : GreetingMatchEnd(s, i, GREETINGS[g]) > 0}

LeastOf(S) == CHOOSE a \in S : \A b \in S : a <= b

RECURSIVE RedactNames(_)

\* The match of greeting g at position i replaced, then the rest of the text
RedactMatch(s, i, g) ==
    SubSeq(s, 1, i - 1) \o GREETINGS[g] \o " [REDACTED_NAME]"
    \o RedactNames(SubSeq(s, GreetingMatchEnd(s, i, GREETINGS[g]), Len(s)))

\* The leftmost match, by the first alternative that matches there
RedactFirst(s, starts) ==
    IF starts = {} THEN s
    ELSE RedactMatch(s, LeastOf(starts), LeastOf(GreetingsAt(s, LeastOf(starts))))

RedactNames(s) == RedactFirst(s, {i \in 1..Len(s) : GreetingsAt(s, i) # {}})

DigitCount(s) == Cardinality({i \in 1..Len(s) : IsDigit(CharAt(s, i))})

\* Redactions 1..3 (e-mail addresses, phone numbers, card numbers) need an "@"
\* or at least ten digits to match; the messages of this model carry neither,
\* so those three replacements leave them as they are.
Unredactable(text) == ~Includes(text, "@") /\ DigitCount(text) < 10

\* text is Null when the field is absent
anonymizeText(text) ==
    IF text = Null \/ text = "" THEN "" ELSE RedactNames(text)

(***************************************************************************)
(* ai-engine.js: PhishAIEngine.analyzeText                                 *)
(***************************************************************************)
RECURSIVE FilterIncluded(_, _, _)
FilterIncluded(lowerText, keywords, i) ==
    IF i > Len(keywords) THEN <<>>
    ELSE (IF Includes(lowerText, ToLowerCase(keywords[i])) THEN <<keywords[i]>> ELSE <<>>)
         \o FilterIncluded(lowerText, keywords, i + 1)

\* _findKeywordMatches, with fuzzyMatch = (text, kw) => text.includes(kw)
findKeywordMatches(text, keywords) ==
    IF text = Null \/ text = "" THEN <<>>
    ELSE FilterIncluded(ToLowerCase(text), keywords, 1)

\* text.replace(/[^a-zA-Z]/g, '').length
LetterCount(s) == Cardinality({i \in 1..Len(s) : IsLetter(CharAt(s, i))})

\* letters.replace(/[^A-Z]/g, '').length
CapsCount(s) == Cardinality({i \in 1..Len(s) : IsUpper(CharAt(s, i))})

\* _calculateCapsRatio: the ratio as the pair (totalCaps, totalLetters)
calculateCapsRatio(text) ==
    IF text = Null \/ Len(text) < 5 THEN [totalCaps |-> 0, totalLetters |-> 0]
    ELSE [totalCaps |-> CapsCount(text), totalLetters |-> LetterCount(text)]

\* capsInfo.ratio > 0.3
CapsRatioHigh(info) == info.totalLetters > 0 /\ 10 * info.totalCaps > 3 * info.totalLetters

\* (body.match(/c{2,}/g) || []).length: the runs of c of length two or more
RunCount(s, c) ==
    Cardinality({i \in 1..(Len(s) - 1) :
                    /\ CharAt(s, i) = c
                    /\ CharAt(s, i + 1) = c
                    /\ (i = 1 \/ CharAt(s, i - 1) # c)})

\* A hook that scores although no model is there
nlpPhishingScoreLeaky(phishingModelLoaded) == IF ~phishingModelLoaded THEN 70 ELSE 0

\* A hook that scores with the model once it is loaded
nlpPhishingScoreLive(phishingModelLoaded) == IF ~phishingModelLoaded THEN 0 ELSE 70

\* _nlpPhishingScore, in percent: 0 with no model, 0 with a model (no tokenizer)
nlpPhishingScore(phishingModelLoaded) == IF ~phishingModelLoaded THEN 0 ELSE 0

\* Math.round(nlpScore * 40)
NlpPoints(nlpPercent) == (nlpPercent * 40 + 50) \div 100

Quoted(matches) == "\"" \o Join(matches, ", ") \o "\""

\* The keyword tables analyzeText matches the text against
KeywordMatches(fullText) ==
    [urgency  |-> findKeywordMatches(fullText, URGENCY_KEYWORDS),
     threat   |-> findKeywordMatches(fullText, THREAT_KEYWORDS),
     finance  |-> findKeywordMatches(fullText, FINANCIAL_KEYWORDS),
     imperson |-> findKeywordMatches(fullText, IMPERSONATION_KEYWORDS),
     action   |-> findKeywordMatches(fullText, ACTION_KEYWORDS),
     hinglish |-> findKeywordMatches(fullText, HINGLISH_KEYWORDS),
     grammar  |-> findKeywordMatches(fullText, GRAMMAR_INDICATORS),
     brands   |-> findKeywordMatches(fullText, BRAND_KEYWORDS)]

\* The checks of analyzeText after the empty-text return, in order;
\* m holds the keyword matches
TextChecksOf(m, body, senderDomain, nlpPercent) ==
    << [hit |-> nlpPercent > 60, pts |-> NlpPoints(nlpPercent),
        flag |-> [code |-> "NLP_MODEL",
                  message |-> "AI model flagged this as phishing with "
                              \o ToString(nlpPercent) \o "% confidence"]],
       [hit |-> Len(m.urgency) > 0, pts |-> Min(Len(m.urgency) * 12, 30),
        flag |-> [code |-> "URGENCY",
                  message |-> "Urgency tactics: " \o Quoted(m.urgency)]],
       [hit |-> Len(m.threat) > 0, pts |-> Min(Len(m.threat) * 15, 30),
        flag |-> [code |-> "THREAT",
                  message |-> "Threatening language: " \o Quoted(m.threat)]],
       [hit |-> Len(m.finance) > 0, pts |-> Min(Len(m.finance) * 10, 27),
        flag |-> [code |-> "FINANCIAL",
                  message |-> "Financial bait: " \o Quoted(m.finance)]],
       [hit |-> Len(m.imperson) >= 2, pts |-> 15,
        flag |-> [code |-> "IMPERSONATION",
                  message |-> "Generic impersonation language (e.g., 'Dear Customer')"]],
       [hit |-> Len(m.action) > 0, pts |-> Min(Len(m.action) * 8, 25),
        flag |-> [code |-> "ACTION",
                  message |-> "Pushes you to act: " \o Quoted(m.action)]],
       [hit |-> Len(m.hinglish) > 0, pts |-> Min(Len(m.hinglish) * 10, 20),
        flag |-> [code |-> "HINGLISH",
                  message |-> "Regional scam pattern: " \o Quoted(m.hinglish)]],
       [hit |-> Len(m.grammar) > 0, pts |-> Min(Len(m.grammar) * 8, 10),
        flag |-> [code |-> "GRAMMAR",
                  message |-> "Contains grammar errors common in scam emails"]],
       [hit |-> CapsRatioHigh(calculateCapsRatio(body)) /\ Len(body) > 50, pts |-> 10,
        flag |-> [code |-> "CAPS",
                  message |-> "Excessive use of CAPITAL LETTERS (shouting tactic)"]],
       [hit |-> RunCount(body, "!") + RunCount(body, "?") >= 3, pts |-> 8,
        flag |-> [code |-> "PUNCTUATION",
                  message |-> "Excessive punctuation (!! or ??) - common in scams"]],
       [hit |-> /\ Len(m.brands) > 0
                /\ senderDomain # ""
                /\ \E b \in 1..Len(m.brands) :
                       ~Includes(senderDomain, ToLowerCase(m.brands[b])),
        pts |-> 20,
        flag |-> [code |-> "DOMAIN_MISMATCH",
                  message |-> "Mentions " \o Quoted(m.brands)
                              \o " but sender domain is " \o senderDomain]] >>

TextChecks(fullText, body, senderDomain, nlpPercent) ==
    TextChecksOf(KeywordMatches(fullText), body, senderDomain, nlpPercent)

\* `${cleanSubject} ${cleanBody}`.toLowerCase()
fullTextOf(body, subject) ==
    ToLowerCase(anonymizeText(subject) \o " " \o anonymizeText(body))

\* A text result that leaves the sum of the checks as it is
TextResultUncapped(checks) ==
    [threw |-> FALSE,
     score |-> SumHits(checks, 1),
     flags |-> FlagsOfHits(checks, 1),
     confidenceTenths |-> Len(FlagsOfHits(checks, 1))]

\* score = Math.min(score, 100); confidence = flags.length / 10, kept as the
\* number of tenths
TextResultOf(checks) ==
    [threw |-> FALSE,
     score |-> Min(SumHits(checks, 1), 100),
     flags |-> FlagsOfHits(checks, 1),
     confidenceTenths |-> Len(FlagsOfHits(checks, 1))]

\* analyzeText once fullText is built
analyzeFullText(fullText, body, senderDomain, nlpPercent) ==
    IF Trim(fullText) = ""
    THEN [threw |-> FALSE, score |-> 0, flags |-> <<>>, confidenceTenths |-> 0]
    ELSE IF body = Null
    THEN [threw |-> TRUE, score |-> 0, flags |-> <<>>, confidenceTenths |-> 0]
    ELSE TextResultOf(TextChecks(fullText, body, senderDomain, nlpPercent))

\* analyzeText.  body is Null when the field is absent; then body.match (check 9)
\* raises a TypeError once the text is not empty: threw.
analyzeText(body, subject, senderDomain, nlpPercent) ==
    analyzeFullText(fullTextOf(body, subject), body, senderDomain, nlpPercent)


(***************************************************************************)
(* ai-engine.js: PhishAIEngine._detectCategory                             *)
(***************************************************************************)
NoCategory ==
    [found |-> FALSE, key |-> Null, label |-> Null, severity |-> 0, minMatch |-> 0,
     matchedKeywords |-> <<>>, matchScore |-> 0, keywordCount |-> 0]

\* The test letting the last category of equal score win
BeatsBestLast(matchScore, severity, best) == matchScore >= best.matchScore

\* The test that makes a category the new best one
BeatsBest(matchScore, severity, best) ==
    \/ matchScore > best.matchScore
    \/ matchScore = best.matchScore /\ severity > best.severity

\* cat.weights?.[kw] || 1 for keyword k of the category: weights runs
\* along keywords, 0 where the category gives the keyword no weight
WeightOf(cat, k) ==
    IF k <= Len(cat.weights) /\ cat.weights[k] # 0 THEN cat.weights[k] ELSE 1

\* cat.keywords.reduce(...): the weights of the keywords lowerText includes,
\* from keyword k on
RECURSIVE MatchScoreFrom(_, _, _)
MatchScoreFrom(lowerText, cat, k) ==
    IF k > Len(cat.keywords) THEN 0
    ELSE (IF Includes(lowerText, cat.keywords[k]) THEN WeightOf(cat, k) ELSE 0)
         + MatchScoreFrom(lowerText, cat, k + 1)

\* cat.keywords.filter(kw => fuzzyMatch(lowerText, kw)), from keyword k on
RECURSIVE MatchedFrom(_, _, _)
MatchedFrom(lowerText, keywords, k) ==
    IF k > Len(keywords) THEN <<>>
    ELSE (IF Includes(lowerText, keywords[k]) THEN <<keywords[k]>> ELSE <<>>)
         \o MatchedFrom(lowerText, keywords, k + 1)

\* bestCategory = { ...cat, matchedKeywords, matchScore }
Candidate(cat, lowerText, matchScore) ==
    [found |-> TRUE, key |-> cat.key, label |-> cat.label,
     severity |-> cat.severity, minMatch |-> cat.minMatch,
     matchedKeywords |-> MatchedFrom(lowerText, cat.keywords, 1),
     matchScore |-> matchScore, keywordCount |-> Len(cat.keywords)]

\* One turn of the loop: best after category cat with its matchScore
BestAfter(cat, lowerText, matchScore, best) ==
    IF BeatsBest(matchScore, cat.severity, best)
    THEN Candidate(cat, lowerText, matchScore)
    ELSE best

\* the for loop over Object.entries(SCAM_CATEGORIES), from category i on;
\* best is (bestCategory, bestMatchScore), NoCategory standing for (null, 0)
RECURSIVE BestCategoryFrom(_, _, _, _)
BestCategoryFrom(cats, lowerText, i, best) ==
    IF i > Len(cats) THEN best
    ELSE BestCategoryFrom(cats, lowerText, i + 1,
             BestAfter(cats[i], lowerText, MatchScoreFrom(lowerText, cats[i], 1), best))

\* A threshold lowered by one whether or not another analyzer raised a flag
effectiveThresholdLow(best, urlResult, senderResult) ==
    (IF best.minMatch = 0 THEN 2 ELSE best.minMatch) - 1

\* bestCategory.minMatch || 2, minus one when the URL or sender analyzer raised a flag
effectiveThreshold(best, urlResult, senderResult) ==
    LET threshold == IF best.minMatch = 0 THEN 2 ELSE best.minMatch
        hasExtraSignals == Len(urlResult.flags) > 0 \/ Len(senderResult.flags) > 0
    IN  IF hasExtraSignals THEN threshold - 1 ELSE threshold

\* The return of _detectCategory once the loop has left best
AcceptCategory(best, textResult, urlResult, senderResult) ==
    IF ~best.found THEN NoCategory
    ELSE IF \/ best.matchScore >= effectiveThreshold(best, urlResult, senderResult)
            \/ (best.matchScore = 1 /\ textResult.score >= 50)
         THEN best
         ELSE NoCategory

\* text is Null when the body is absent
detectCategory(cats, text, textResult, urlResult, senderResult) ==
    IF text = Null \/ text = "" THEN NoCategory
    ELSE AcceptCategory(BestCategoryFrom(cats, ToLowerCase(text), 1, NoCategory),
                        textResult, urlResult, senderResult)

(***************************************************************************)
(* ai-engine.js: PhishAIEngine._generateExplanation                        *)
(***************************************************************************)
RECURSIVE Messages(_, _)
Messages(flags, i) ==
    IF i > Len(flags) THEN <<>> ELSE <<flags[i].message>> \o Messages(flags, i + 1)

HasCode(flags, code) == \E i \in 1..Len(flags) : flags[i].code = code

SafeSummary == "SAFE: No scam indicators detected."

EducationalTip(key) ==
    CASE key = "BANKING"      -> "Real banks NEVER ask for passwords, PINs, or OTPs via email."
      [] key = "DELIVERY"     -> "Check your actual order history on the retailer's official site."
      [] key = "JOB"          -> "Legitimate employers never ask for money upfront."
      [] key = "GOVERNMENT"   -> "Government agencies never threaten immediate arrest via email."
      [] key = "LOTTERY"      -> "You can't win a lottery you never entered."
      [] key = "ROMANCE"      -> "Never send money to someone you've only met online."
      [] key = "TECH_SUPPORT" -> "Microsoft, Apple, and Google will never email you about viruses."
      [] key = "CRYPTO"       -> "No legitimate investment guarantees returns."
      [] OTHER                -> Null

\* A blend that is the text score alone
blendedScoreTextOnly(textScore, urlScore, senderScore) == textScore

\* Math.round(text * 0.4 + url * 0.4 + sender * 0.2): 4t + 4u + 2s is even, so
\* the sum is never half way between two integers
blendedScore(textScore, urlScore, senderScore) ==
    (4 * textScore + 4 * urlScore + 2 * senderScore + 5) \div 10

\* URL and sender flags are strings: f.code is undefined on them, so the two
\* tips asked of them never fire.
generateExplanation(textResult, urlResult, senderResult, category) ==
    LET nFlags == Len(textResult.flags) + Len(urlResult.flags) + Len(senderResult.flags)
        totalScore == blendedScore(textResult.score, urlResult.score, senderResult.score)
        hasStrongNonTextSignals == urlResult.score > 20 \/ senderResult.score > 15
        adjustedScore == totalScore + category.severity * 10
        summary ==
            IF adjustedScore >= 70 /\ hasStrongNonTextSignals
            THEN "HIGH RISK: " \o (IF category.found THEN category.label ELSE "Potential Scam")
                 \o " Detected"
            ELSE IF adjustedScore >= 70
            THEN "CAUTION: Suspicious text patterns detected, but no strong sender/URL evidence"
            ELSE IF adjustedScore >= 30 THEN "CAUTION: Some suspicious elements found"
            ELSE "LOW RISK: Minor concerns detected"
        flagTips ==
            (IF HasCode(textResult.flags, "URGENCY")
             THEN <<"Scammers often pressure you with urgency. Pause and verify before acting.">>
             ELSE <<>>)
            \o (IF HasCode(textResult.flags, "THREAT")
                THEN <<"Threatening language is a scare tactic. Legitimate organizations don't threaten arrest or fines via email.">>
                ELSE <<>>)
    IN  IF nFlags = 0
        THEN [summary |-> SafeSummary, details |-> <<>>,
              educationalTips |->
                  <<"Always verify unexpected requests through official channels.">>]
        ELSE [summary |-> summary,
              details |-> Messages(textResult.flags, 1) \o urlResult.flags
                          \o senderResult.flags
                          \o (IF category.found
                              THEN <<"Category keywords: "
                                     \o Join(category.matchedKeywords, ", ")>>
                              ELSE <<>>),
              educationalTips |->
                  IF Len(flagTips) > 0 THEN flagTips
                  ELSE IF category.found THEN <<EducationalTip(category.key)>>
                  ELSE <<"When in doubt, contact the organization directly using their official website or phone number.">>]

(***************************************************************************)
(* helpers.js: formatRiskResult; run.js: the helpers the runner supplies   *)
(***************************************************************************)
RISK_LEVELS ==
    [SAFE    |-> [min |-> 0,  max |-> 29,  label |-> "Safe",      color |-> "#22c55e"],
     CAUTION |-> [min |-> 30, max |-> 69,  label |-> "Caution",   color |-> "#f59e0b"],
     DANGER  |-> [min |-> 70, max |-> 100, label |-> "High Risk", color |-> "#ef4444"]]

\* A banding that puts each upper limit in the band above
formatRiskResultStrict(score) ==
    IF score < RISK_LEVELS.SAFE.max THEN RISK_LEVELS.SAFE
    ELSE IF score < RISK_LEVELS.CAUTION.max THEN RISK_LEVELS.CAUTION
    ELSE RISK_LEVELS.DANGER

formatRiskResult(score) ==
    IF score <= RISK_LEVELS.SAFE.max THEN RISK_LEVELS.SAFE
    ELSE IF score <= RISK_LEVELS.CAUTION.max THEN RISK_LEVELS.CAUTION
    ELSE RISK_LEVELS.DANGER

\* A calibration that turns the scale round
calibrateInverted(score, component) == 100 - score

\* calibrateScore = score => score
calibrateScore(score, component) == score

\* getAdaptiveWeights = tenantId => null
getAdaptiveWeights(tenantId) == Null

\* The fallback weights of analyze, in hundredths
DEFAULT_WEIGHTS == [TEXT |-> 35, URL |-> 40, SENDER |-> 25]

\* rawScore * 100 with each component score / 100 and weights in hundredths:
\* the exact value of 100 times the sum analyze rounds
weightedSum(textScore, urlScore, senderScore, weights) ==
    calibrateScore(textScore, "TEXT") * weights.TEXT
    + calibrateScore(urlScore, "URL") * weights.URL
    + calibrateScore(senderScore, "SENDER") * weights.SENDER

\* Math.round(rawScore * 100).  rawScore is a sum of double-precision products;
\* where the exact sum lies half way between two integers the computed one may
\* fall just below it, and the result is then the lower integer (a sender score
\* of 30 alone gives 8, of 58 alone gives 14): fpTieDown says which.
roundScore(sum, fpTieDown) ==
    IF sum % 100 = 50 /\ fpTieDown THEN sum \div 100 ELSE (sum + 50) \div 100


(***************************************************************************)
(* The messages scanned                                                    *)
(***************************************************************************)
BodyActNow == "act now suspended click here to verify"

BodyBank ==
    "Act now! Your bank account has been suspended. Click here to verify your account and payment details."

BodyStandup == "Weekly standup reminder, see you at 10am"

BodyLoud ==
    "ACT NOW or face legal action and a lawsuit!!! Your access is SUSPENDED!!! Send ssn, cvv, risk free??? Click here, click below, sign in, submit your form."

Bodies == {Null, "", BodyActNow, BodyBank, BodyStandup, BodyLoud}

Subjects == {Null, "URGENT: Account Suspension Notice"}

SenderPairs ==
    { [sender |-> Null, displayName |-> Null],
      [sender |-> "security@bank-alert.xyz", displayName |-> "Bank of America"],
      [sender |-> "colleague@company.com", displayName |-> "Colleague"],
      [sender |-> "not-an-address", displayName |-> Null] }

UrlIpLogin == "http://192.168.1.5/login"

\* No scheme: the URL constructor rejects it
SchemelessLogin == "mail.google.com/login"

URLLists ==
    { <<>>,
      <<"http://user@paypa1.xyz/login", "not a url">>,
      <<SchemelessLogin, UrlIpLogin>>,
      <<"http://paypa1.com">> }

\* The input records of analyze
EmailInputs ==
    { [body |-> b, subject |-> s, sender |-> p.sender, displayName |-> p.displayName,
       urls |-> u] :
      b \in {x \in Bodies : x = Null \/ Unredactable(x)},
      s \in {x \in Subjects : x = Null \/ Unredactable(x)},
      p \in SenderPairs, u \in URLLists }

\* Calls of analyze on one message
MaxScans == 2

(***************************************************************************)
(* The URLs analysed: scheme, userinfo, host, port and path, put together  *)
(* as a message would carry them                                           *)
(***************************************************************************)
Schemes == {"http://", "https://"}

UserInfos == {"", "user@", "google.com@"}

Ports == {"", ":8080"}

LongPath == "/" \o Repeat("a", 150)

Paths == {"", "/login", "/x?q=%41%42%43%44", LongPath}

GeneralHosts ==
    {"mail.google.com", "Mail.Google.COM", "google.com", "1.2.3.4.google.com",
     "paypal.com.evil.xyz", "notgoogle.com", "192.168.1.5", "bit.ly",
     "a.b.c.d.example.tk", "a.b.c.example.org", "example.org"}

\* The names the typosquat map protects
Brands == {TYPOSQUAT_MAP[i].real : i \in 1..Len(TYPOSQUAT_MAP)}

\* The words one edit away from w, the edit writing the letter c
Substitutions(w, c) ==
    {SubSeq(w, 1, i - 1) \o c \o SubSeq(w, i + 1, Len(w)) : i \in 1..Len(w)}

Deletions(w) == {SubSeq(w, 1, i - 1) \o SubSeq(w, i + 1, Len(w)) : i \in 1..Len(w)}

Insertions(w, c) == {SubSeq(w, 1, i) \o c \o SubSeq(w, i + 1, Len(w)) : i \in 0..Len(w)}

\* Look-alikes of the brands: one edit, or two substitutions
LookalikeBases ==
    UNION {Substitutions(b, "x") \cup Deletions(b) \cup Insertions(b, "x") : b \in Brands}
    \cup UNION {UNION {Substitutions(e, "q") : e \in Substitutions(b, "x")} : b \in Brands}

BrandHosts == {b \o ".com" : b \in Brands} \cup {b \o ".net" : b \in Brands}

LookalikeHosts == {b \o ".com" : b \in LookalikeBases}

PlainParts(h) == [scheme |-> "http://", userinfo |-> "", host |-> h, port |-> "", path |-> ""]

\* Strings that are no URL: no scheme
MalformedParts ==
    { [scheme |-> "", userinfo |-> "", host |-> "mail.google.com", port |-> "",
       path |-> "/login"],
      [scheme |-> "", userinfo |-> "", host |-> "not a url", port |-> "", path |-> ""] }

URLInputs ==
    { [scheme |-> sc, userinfo |-> ui, host |-> h, port |-> po, path |-> pa] :
      sc \in Schemes, ui \in UserInfos, h \in GeneralHosts, po \in Ports, pa \in Paths }
    \cup {PlainParts(h) : h \in BrandHosts \cup LookalikeHosts}
    \cup MalformedParts

UrlOf(parts) == parts.scheme \o parts.userinfo \o parts.host \o parts.port \o parts.path

(***************************************************************************)
(* The category tables classified: three categories in every order, each   *)
(* with every severity up to MaxSeverity                                   *)
(***************************************************************************)
MaxSeverity == 2

CategoryPool ==
    << [key |-> "BANKING", label |-> "Banking/Financial Scam", severity |-> 0,
        minMatch |-> 0, weights |-> <<>>, keywords |-> <<"bank", "account">>],
       [key |-> "DELIVERY", label |-> "Package/Delivery Scam", severity |-> 0,
        minMatch |-> 0, weights |-> <<>>, keywords |-> <<"package", "order">>],
       [key |-> "CRYPTO", label |-> "Cryptocurrency Scam", severity |-> 0,
        minMatch |-> 1, weights |-> <<2, 0>>, keywords |-> <<"wallet", "token">>] >>

Orders ==
    {p \in [1..Len(CategoryPool) -> 1..Len(CategoryPool)] :
        \A i, j \in 1..Len(CategoryPool) : i # j => p[i] # p[j]}

\* The pool in order p, category c carrying severity sv[c]
TableOf(p, sv) ==
    [i \in 1..Len(CategoryPool) |-> [CategoryPool[p[i]] EXCEPT !.severity = sv[p[i]]]]

CategoryTables ==
    {TableOf(p, sv) : p \in Orders, sv \in [1..Len(CategoryPool) -> 0..MaxSeverity]}

CategoryTexts ==
    {"Your bank account: track the package of your order",
     "Bank account and wallet locked",
     "The package left", "Weekly standup reminder"}

\* What _detectCategory reads of the three analyzer results
SignalInputs ==
    { [textScore |-> ts, extra |-> ex] : ts \in {0, 50}, ex \in BOOLEAN }

(***************************************************************************)
(* The component scores aggregated                                         *)
(***************************************************************************)
ScoreGrid == {0, 1, 2, 30, 31, 58, 70, 99, 100}

Components == {"TEXT", "URL", "SENDER"}

(***************************************************************************)
(* State                                                                   *)
(***************************************************************************)
VARIABLES
    emailData,       \* the input record of the scan in hand
    fpTieDown,       \* how the floating-point sum of this message rounds at a tie
    phishingModel,   \* PhishAIEngine.phishingModel: "undefined", "null" or "model"
    pc,              \* where analyze is: "idle", "awaitText", "done", "threw"
    nlpPercent,      \* the value _nlpPhishingScore resolved with
    scanCount,       \* calls of analyze made on emailData
    result,          \* the ScanResult of the last call
    prevResult,      \* the ScanResult of the call before it on the same input
    urlParts,        \* the URL handed to the link analyzer, in its parts
    linkResult,      \* what analyzeURL returned for it
    linkAllResult,   \* what analyzeAllURLs returned for the list holding it
    catTable,        \* the category table the classifier iterates
    catText,         \* the text classified
    catSignals,      \* the analyzer results the classifier reads
    catResult,       \* what _detectCategory returned
    aggScores,       \* the three component scores aggregated
    aggRaised,       \* the component raised since the last aggregation
    aggFinal,        \* the final score of aggScores
    callIn,          \* the arguments of one call of a component function
    callOut,         \* what that call returned
    scanHistory,     \* chrome.storage.local: scanHistory
    stats,           \* chrome.storage.local: stats
    storeClock,      \* Date.now(), counted in saves
    saveFeed,        \* the order in which the results to save arrive
    flights,         \* the calls of analyze in flight together, each with its locals
    overlap,         \* the saves in flight together and the clears handled
    lastScannedEmailId, \* content script: the id of the e-mail scanned last
    openEmail,       \* the body of the e-mail the page shows, Null for none
    effects,         \* what the content script has done, in order
    clock,           \* the clock of the timers, in units of time
    timeout,         \* debounce: the id of the timer set last, 0 for undefined
    timers,          \* the timers set and neither fired nor cleared
    calls,           \* the time of each call of the debounced wrapper
    invoked          \* the invocations of the wrapped function

mainVars == <<emailData, fpTieDown, phishingModel, pc, nlpPercent, scanCount, result,
              prevResult>>

linkVars == <<urlParts, linkResult, linkAllResult>>

catVars == <<catTable, catText, catSignals, catResult>>

aggVars == <<aggScores, aggRaised, aggFinal>>

callVars == <<callIn, callOut>>

storeVars == <<scanHistory, stats, storeClock, saveFeed>>

flightVars == <<flights>>

raceVars == <<overlap>>

contentVars == <<lastScannedEmailId, openEmail, effects>>

debounceVars == <<clock, timeout, timers, calls, invoked>>

lateVars == <<raceVars, contentVars, debounceVars>>

vars == <<mainVars, linkVars, catVars, aggVars, callVars, storeVars, flightVars, lateVars>>

NoResult == [present |-> FALSE]

\* emailData.sender ? emailData.sender.split("@")[1] : "", an undefined
\* argument taking the parameter's default ""
senderDomainOf(sender) ==
    IF sender = Null \/ sender = "" THEN ""
    ELSE LET d == SecondPiece(sender, "@") IN IF d = Null THEN "" ELSE d

\* weights = getAdaptiveWeights(...) || { TEXT: 0.35, URL: 0.40, SENDER: 0.25 }
WeightsOr(adaptive) == IF adaptive = Null THEN DEFAULT_WEIGHTS ELSE adaptive

\* finalScore of analyze from the three component scores
finalScoreOf(textScore, urlScore, senderScore, tieDown) ==
    roundScore(weightedSum(textScore, urlScore, senderScore,
                           WeightsOr(getAdaptiveWeights(Null))), tieDown)

\* urlResult.flaggedURLs || []
flaggedURLsOr(urlResult) ==
    IF "flaggedURLs" \in DOMAIN urlResult THEN urlResult.flaggedURLs ELSE <<>>

\* Step 7 of analyze: the ScanResult.  scanId (Date.now and Math.random) is the
\* number of the call; processingTime and timestamp, two clock readings, are
\* left out.
assembleResult(textResult, urlResult, senderResult, finalScore, category, scanId) ==
    [present |-> TRUE,
     scanId |-> scanId,
     score |-> finalScore,
     riskLevel |-> formatRiskResult(finalScore).label,
     color |-> formatRiskResult(finalScore).color,
     category |-> IF category.found THEN category.label ELSE "General",
     explanation |-> generateExplanation(textResult, urlResult, senderResult, category),
     details |-> [textScore |-> textResult.score,
                  urlScore |-> urlResult.score,
                  senderScore |-> senderResult.score,
                  textFlags |-> textResult.flags,
                  urlFlags |-> urlResult.flags,
                  senderFlags |-> senderResult.flags,
                  urlCount |-> urlResult.urlCount,
                  flaggedURLs |-> flaggedURLsOr(urlResult)],
     confidenceTenths |-> textResult.confidenceTenths]

\* Steps 4..6 of analyze: the final score and the category
combineResults(email, textResult, urlResult, senderResult, tieDown, scanId) ==
    assembleResult(textResult, urlResult, senderResult,
                   finalScoreOf(textResult.score, urlResult.score, senderResult.score,
                                tieDown),
                   detectCategory(SCAM_CATEGORIES, email.body, textResult, urlResult,
                                  senderResult),
                   scanId)

\* Steps 2..7 of analyze once analyzeText has returned textResult
buildResult(email, textResult, tieDown, scanId) ==
    combineResults(email, textResult, analyzeAllURLs(email.urls),
                   analyzeSender(email.sender, email.displayName), tieDown, scanId)

\* The engine before any call, on message e
EngineAtRest(e) ==
    /\ emailData = e
    /\ phishingModel = "undefined"
    /\ pc = "idle"
    /\ nlpPercent = 0
    /\ scanCount = 0
    /\ result = NoResult
    /\ prevResult = NoResult

\* The link analyzer before any call, on URL u
LinkAtRest(u) ==
    /\ urlParts = u
    /\ linkResult = NoResult
    /\ linkAllResult = NoResult

\* The classifier before any call
ClassifierAtRest(table, text, signals) ==
    /\ catTable = table
    /\ catText = text
    /\ catSignals = signals
    /\ catResult = NoResult

NoEmail == [body |-> Null, subject |-> Null, sender |-> Null, displayName |-> Null,
            urls |-> <<>>]

ZeroScores == [TEXT |-> 0, URL |-> 0, SENDER |-> 0]

\* The storage as onInstalled and the reset leave it
ZeroStats == [totalScans |-> 0, scamsDetected |-> 0, safeEmails |-> 0,
              categoryCounts |-> <<>>]

\* The results arriving in the order given
FirstFeed == <<1, 2, 3>>

StoreAtRest(feed) ==
    /\ scanHistory = <<>>
    /\ stats = ZeroStats
    /\ storeClock = 0
    /\ saveFeed = feed

\* No call of analyze in flight
NoFlights == <<>>

\* No save in flight
NoOverlap == [saves |-> <<>>, clears |-> 0]


\* The content script as loaded, on a page showing no e-mail
ContentAtRest(shown) ==
    /\ lastScannedEmailId = Null
    /\ openEmail = shown
    /\ effects = <<>>

\* The wrapper as debounce returns it
DebounceAtRest ==
    /\ clock = 0
    /\ timeout = 0
    /\ timers = {}
    /\ calls = <<>>
    /\ invoked = <<>>

LateAtRest ==
    /\ overlap = NoOverlap
    /\ ContentAtRest(Null)
    /\ DebounceAtRest

\* No component call in hand
NoCall == [kind |-> "none"]

CallAtRest(c) ==
    /\ callIn = c
    /\ callOut = NoResult

\* The aggregation of the scores sc
Aggregated(sc, raised, tieDown) ==
    /\ aggScores = sc
    /\ aggRaised = raised
    /\ aggFinal = finalScoreOf(sc.TEXT, sc.URL, sc.SENDER, tieDown)

Init ==
    /\ \E e \in EmailInputs : EngineAtRest(e)
    /\ fpTieDown \in BOOLEAN
    /\ LinkAtRest(PlainParts("example.org"))
    /\ ClassifierAtRest(SCAM_CATEGORIES, "", [textScore |-> 0, extra |-> FALSE])
    /\ Aggregated(ZeroScores, "none", FALSE)
    /\ CallAtRest(NoCall)
    /\ StoreAtRest(FirstFeed)
    /\ flights = NoFlights
    /\ LateAtRest

\* loadPhishingModel settles: the model object, or null when tfjs-node is
\* missing or the load fails
LoadPhishingModel ==
    /\ \E m \in {"null", "model"} : phishingModel' = m
    /\ UNCHANGED <<emailData, fpTieDown, pc, nlpPercent, scanCount, result, prevResult>>
    /\ UNCHANGED <<linkVars, catVars, aggVars, callVars, storeVars, flightVars, lateVars>>

\* analyze up to the await in analyzeText: _nlpPhishingScore reads the model
AnalyzeBegin ==
    /\ pc = "idle"
    /\ scanCount < MaxScans
    /\ nlpPercent' = nlpPhishingScore(phishingModel = "model")
    /\ scanCount' = scanCount + 1
    /\ pc' = "awaitText"
    /\ UNCHANGED <<emailData, fpTieDown, phishingModel, result, prevResult>>
    /\ UNCHANGED <<linkVars, catVars, aggVars, callVars, storeVars, flightVars, lateVars>>

\* analyze after the await, analyzeText having returned textResult
AnalyzeFinish(textResult) ==
    IF textResult.threw
    THEN /\ pc' = "threw"
         /\ result' = NoResult
    ELSE /\ pc' = "done"
         /\ result' = buildResult(emailData, textResult, fpTieDown, scanCount)

\* analyze from the await on: the rest of analyzeText, then steps 2..7
AnalyzeResume ==
    /\ pc = "awaitText"
    /\ AnalyzeFinish(analyzeText(emailData.body,
                                 IF emailData.subject = Null THEN "" ELSE emailData.subject,
                                 senderDomainOf(emailData.sender), nlpPercent))
    /\ prevResult' = result
    /\ UNCHANGED <<emailData, fpTieDown, phishingModel, nlpPercent, scanCount>>
    /\ UNCHANGED <<linkVars, catVars, aggVars, callVars, storeVars, flightVars, lateVars>>

\* The caller scans the same message again
Rescan ==
    /\ pc \in {"done", "threw"}
    /\ scanCount < MaxScans
    /\ pc' = "idle"
    /\ UNCHANGED <<emailData, fpTieDown, phishingModel, nlpPercent, scanCount, result,
                   prevResult>>
    /\ UNCHANGED <<linkVars, catVars, aggVars, callVars, storeVars, flightVars, lateVars>>

Next == LoadPhishingModel \/ AnalyzeBegin \/ AnalyzeResume \/ Rescan

Spec == Init /\ [][Next]_vars

(***************************************************************************)
(* The link analyzer on its own: PhishScanner.analyzeURL and               *)
(* analyzeAllURLs on one URL                                                *)
(***************************************************************************)
LinkInit ==
    /\ \E u \in URLInputs : LinkAtRest(u)
    /\ EngineAtRest(NoEmail)
    /\ fpTieDown = FALSE
    /\ ClassifierAtRest(SCAM_CATEGORIES, "", [textScore |-> 0, extra |-> FALSE])
    /\ Aggregated(ZeroScores, "none", FALSE)
    /\ CallAtRest(NoCall)
    /\ StoreAtRest(FirstFeed)
    /\ flights = NoFlights
    /\ LateAtRest

Returned(r) == [present |-> TRUE, value |-> r]

AnalyzeURLCall ==
    /\ ~linkResult.present
    /\ linkResult' = Returned(analyzeURL(UrlOf(urlParts)))
    /\ UNCHANGED <<urlParts, linkAllResult, mainVars, catVars, aggVars, callVars, storeVars, flightVars, lateVars>>

AnalyzeAllURLsCall ==
    /\ ~linkAllResult.present
    /\ linkAllResult' = Returned(analyzeAllURLs(<<UrlOf(urlParts)>>))
    /\ UNCHANGED <<urlParts, linkResult, mainVars, catVars, aggVars, callVars, storeVars, flightVars, lateVars>>

LinkNext == AnalyzeURLCall \/ AnalyzeAllURLsCall

LinkSpec == LinkInit /\ [][LinkNext]_vars

(***************************************************************************)
(* The classifier on its own: _detectCategory over a table given in every  *)
(* iteration order                                                         *)
(***************************************************************************)
CatInit ==
    /\ \E table \in CategoryTables, text \in CategoryTexts, signals \in SignalInputs :
           ClassifierAtRest(table, text, signals)
    /\ EngineAtRest(NoEmail)
    /\ fpTieDown = FALSE
    /\ LinkAtRest(PlainParts("example.org"))
    /\ Aggregated(ZeroScores, "none", FALSE)
    /\ CallAtRest(NoCall)
    /\ StoreAtRest(FirstFeed)
    /\ flights = NoFlights
    /\ LateAtRest

\* The analyzer results with the fields _detectCategory reads
TextSignal(signals) == [score |-> signals.textScore]

FlagSignal(signals) == [flags |-> IF signals.extra THEN <<TrustedFlag>> ELSE <<>>]

DetectCategoryCall ==
    /\ ~catResult.present
    /\ catResult' = Returned(detectCategory(catTable, catText, TextSignal(catSignals),
                                            FlagSignal(catSignals), FlagSignal(catSignals)))
    /\ UNCHANGED <<catTable, catText, catSignals, mainVars, linkVars, aggVars, callVars, storeVars, flightVars, lateVars>>

CatNext == DetectCategoryCall

CatSpec == CatInit /\ [][CatNext]_vars

(***************************************************************************)
(* The aggregation on its own: step 4 of analyze as one component score    *)
(* is raised                                                               *)
(***************************************************************************)
AggInit ==
    /\ \E sc \in [Components -> ScoreGrid], tieDown \in BOOLEAN :
           Aggregated(sc, "none", tieDown)
    /\ EngineAtRest(NoEmail)
    /\ fpTieDown = FALSE
    /\ LinkAtRest(PlainParts("example.org"))
    /\ ClassifierAtRest(SCAM_CATEGORIES, "", [textScore |-> 0, extra |-> FALSE])
    /\ CallAtRest(NoCall)
    /\ StoreAtRest(FirstFeed)
    /\ flights = NoFlights
    /\ LateAtRest

\* analyze aggregates again after component c has gone up to v
Raise ==
    /\ \E c \in Components, v \in ScoreGrid, tieDown \in BOOLEAN :
           /\ v > aggScores[c]
           /\ aggScores' = [aggScores EXCEPT ![c] = v]
           /\ aggRaised' = c
           /\ aggFinal' = finalScoreOf(aggScores'.TEXT, aggScores'.URL, aggScores'.SENDER,
                                       tieDown)
    /\ UNCHANGED <<mainVars, linkVars, catVars, callVars, storeVars, flightVars, lateVars>>

AggNext == Raise

AggSpec == AggInit /\ [][AggNext]_vars

(***************************************************************************)
(* One call of one component function on one input                         *)
(***************************************************************************)
\* What PhishGuardHelpers carries of calibrateScore and getAdaptiveWeights:
\* the runner's fallbacks, or nothing (helpers.js defines neither)
HelperHooks == {"fallbacks", "absent"}

\* emailData.tenantId: absent, the runner's "default", a tenant with no settings
TenantIds == {Null, "default", "tenant-without-settings"}

ConfigMessages ==
    { [body |-> BodyBank, subject |-> Null, sender |-> "security@bank-alert.xyz",
       displayName |-> "Bank of America", urls |-> <<>>],
      [body |-> BodyStandup, subject |-> Null, sender |-> "colleague@company.com",
       displayName |-> "Colleague", urls |-> <<>>],
      [body |-> BodyActNow, subject |-> Null, sender |-> Null, displayName |-> Null,
       urls |-> <<UrlIpLogin>>] }

ConfigCalls ==
    { [kind |-> "analyze", hooks |-> h, tenantId |-> t, email |-> e, tieDown |-> d] :
      h \in HelperHooks, t \in TenantIds, e \in ConfigMessages, d \in BOOLEAN }

\* analyze with the helpers as given, analyzeText having returned textResult:
\* PhishGuardHelpers.calibrateScore(...) raises a TypeError when the helper
\* object has no such function; otherwise the weights are those of
\* getAdaptiveWeights(tenantId) or the defaults
analyzeUnder(hooks, tenantId, email, textResult, tieDown) ==
    IF textResult.threw \/ hooks = "absent"
    THEN [threw |-> TRUE]
    ELSE [threw |-> FALSE,
          weights |-> WeightsOr(getAdaptiveWeights(tenantId)),
          result |-> buildResult(email, textResult, tieDown, 1)]

AnalyzeConfiguredCall ==
    /\ callIn.kind = "analyze"
    /\ ~callOut.present
    /\ callOut' = Returned(analyzeUnder(callIn.hooks, callIn.tenantId, callIn.email,
                                        analyzeText(callIn.email.body, "",
                                                    senderDomainOf(callIn.email.sender), 0),
                                        callIn.tieDown))
    /\ UNCHANGED <<callIn, mainVars, linkVars, catVars, aggVars, storeVars, flightVars, lateVars>>

\* PhishAIEngine.phishingModel at the call: never assigned, null after a failed
\* or skipped load, or the loaded model
ModelStates == {"undefined", "null", "model"}

\* Two impersonation phrases, the first with a capital the privacy scrub takes
\* for a name
BodyDearCustomer ==
    "Dear Customer, we have detected unusual activity. Kindly do the needful and revert back."

\* Two impersonation phrases the privacy scrub leaves alone
BodyDearUser ==
    "dear user, we noticed a problem: aapka account block ho jayega, kyc update today."

TextCalls ==
    { [kind |-> "text", model |-> m, body |-> b, subject |-> s, senderDomain |-> d] :
      m \in ModelStates,
      b \in {Null, "", BodyActNow, BodyLoud, BodyDearCustomer, BodyDearUser},
      s \in {"", "URGENT: Account Suspension Notice"},
      d \in {"", "bank-alert.xyz"} }

AnalyzeTextCall ==
    /\ callIn.kind = "text"
    /\ ~callOut.present
    /\ callOut' = Returned(analyzeText(callIn.body, callIn.subject, callIn.senderDomain,
                                       nlpPhishingScore(callIn.model = "model")))
    /\ UNCHANGED <<callIn, mainVars, linkVars, catVars, aggVars, storeVars, flightVars, lateVars>>

\* The final scores formatRiskResult is handed
BandCalls == { [kind |-> "band", score |-> s] : s \in RISK_LEVELS.SAFE.min..RISK_LEVELS.DANGER.max }

FormatRiskResultCall ==
    /\ callIn.kind = "band"
    /\ ~callOut.present
    /\ callOut' = Returned(formatRiskResult(callIn.score))
    /\ UNCHANGED <<callIn, mainVars, linkVars, catVars, aggVars, storeVars, flightVars, lateVars>>

\* URLs per list handed to analyzeAllURLs
MaxUrls == 2

\* Beyond the 60 characters _truncateURL keeps
LongLoginUrl == "http://example.org/login/" \o Repeat("a", 50)

ListURLs ==
    {"https://mail.google.com/x", "http://example.org", UrlIpLogin,
     "http://user@paypa1.xyz/login", "not a url", LongLoginUrl}

UrlListCalls ==
    { [kind |-> "urls", urls |-> u] : u \in UNION {[1..k -> ListURLs] : k \in 0..MaxUrls} }

AnalyzeUrlListCall ==
    /\ callIn.kind = "urls"
    /\ ~callOut.present
    /\ callOut' = Returned(analyzeAllURLs(callIn.urls))
    /\ UNCHANGED <<callIn, mainVars, linkVars, catVars, aggVars, storeVars, flightVars, lateVars>>

SenderCalls ==
    { [kind |-> "sender", sender |-> s, displayName |-> d] :
      s \in {Null, "", "  ", "not-an-address", "user@", "@", "a@@paypal.xyz",
             "security@bank-alert.xyz", "PayPal@gmail.com"},
      d \in {Null, "PayPal Support", "Colleague"} }

AnalyzeSenderCall ==
    /\ callIn.kind = "sender"
    /\ ~callOut.present
    /\ callOut' = Returned(analyzeSender(callIn.sender, callIn.displayName))
    /\ UNCHANGED <<callIn, mainVars, linkVars, catVars, aggVars, storeVars, flightVars, lateVars>>

\* The analyzer results and the category _generateExplanation is handed: the
\* scores on either side of its two limits (URL 20, sender 15), a component
\* with a score carrying a flag
ExplainCalls ==
    { [kind |-> "explain", textScore |-> t, urlScore |-> u, senderScore |-> s,
       found |-> f, severity |-> sv] :
      t \in {0, 50, 100}, u \in {0, 20, 21, 100}, s \in {0, 15, 16, 100},
      f \in BOOLEAN, sv \in 0..MaxSeverity }

\* The category of a call: null, or the banking category with the severity given
CategoryOfCall(c) ==
    IF ~c.found THEN NoCategory
    ELSE [NoCategory EXCEPT !.found = TRUE, !.key = "BANKING",
                            !.label = "Banking/Financial Scam",
                            !.severity = c.severity, !.matchedKeywords = <<"bank">>,
                            !.matchScore = 1, !.keywordCount = 7]

GenerateExplanationCall ==
    /\ callIn.kind = "explain"
    /\ ~callOut.present
    /\ callOut' = Returned(generateExplanation(
           [score |-> callIn.textScore,
            flags |-> IF callIn.textScore > 0
                      THEN << [code |-> "URGENCY", message |-> "Urgency tactics"] >>
                      ELSE <<>>],
           [score |-> callIn.urlScore,
            flags |-> IF callIn.urlScore > 0 THEN <<"Unusually long URL">> ELSE <<>>],
           [score |-> callIn.senderScore,
            flags |-> IF callIn.senderScore > 0 THEN <<"Unusually long sender domain">>
                      ELSE <<>>],
           CategoryOfCall(callIn)))
    /\ UNCHANGED <<callIn, mainVars, linkVars, catVars, aggVars, storeVars, flightVars, lateVars>>

CallInputs ==
    ConfigCalls \cup TextCalls \cup BandCalls \cup UrlListCalls \cup SenderCalls
    \cup ExplainCalls

CallInit ==
    /\ \E c \in CallInputs : CallAtRest(c)
    /\ EngineAtRest(NoEmail)
    /\ fpTieDown = FALSE
    /\ LinkAtRest(PlainParts("example.org"))
    /\ ClassifierAtRest(SCAM_CATEGORIES, "", [textScore |-> 0, extra |-> FALSE])
    /\ Aggregated(ZeroScores, "none", FALSE)
    /\ StoreAtRest(FirstFeed)
    /\ flights = NoFlights
    /\ LateAtRest

CallNext ==
    \/ AnalyzeConfiguredCall
    \/ AnalyzeTextCall
    \/ FormatRiskResultCall
    \/ AnalyzeUrlListCall
    \/ AnalyzeSenderCall
    \/ GenerateExplanationCall

CallSpec == CallInit /\ [][CallNext]_vars

(***************************************************************************)
(* The scan store (StoreSpec): saveScanResult of helpers.js and            *)
(* saveResultToStorage of the service worker, which share one body, and    *)
(* the reset of the message router.  Each save runs from its read of the   *)
(* storage to its write before the next begins.                            *)
(***************************************************************************)
\* history.length > 100
HISTORY_LIMIT == 100

\* Saves performed in one behaviour
MaxSaves == 102

\* The results the content script asks to save
SavedResults ==
    << [score |-> 85, category |-> "Banking/Financial Scam"],
       [score |-> 69, category |-> "General"],
       [score |-> 70, category |-> "General"] >>

\* The orders in which they arrive, repeated in turn
Feeds ==
    {f \in [1..Len(SavedResults) -> 1..Len(SavedResults)] :
        \A i, j \in DOMAIN f : i # j => f[i] # f[j]}

\* The result of the n-th SAVE_RESULT message, n counted from 0
ResultAt(feed, n) == SavedResults[feed[(n % Len(SavedResults)) + 1]]

\* result.score > 70
countsAsScamStrict(score) == score > 70

\* result.score >= 70
countsAsScam(score) == score >= 70

\* history.unshift({...result, timestamp: Date.now()})
unshift(history, saved, now) ==
    <<[score |-> saved.score, category |-> saved.category,
       timestamp |-> now]>> \o history

\* if (history.length > 100) history.pop()
popOverLimit(history) ==
    IF Len(history) > HISTORY_LIMIT
    THEN SubSeq(history, 1, Len(history) - 1)
    ELSE history

\* (stats.categoryCounts[category] || 0) + 1
categoryCountOr(counts, category) ==
    IF category \in DOMAIN counts THEN counts[category] ELSE 0

\* stats.categoryCounts[result.category] = ... + 1
countCategory(counts, category) ==
    [c \in DOMAIN counts \cup {category} |->
        IF c = category THEN categoryCountOr(counts, category) + 1
        ELSE counts[c]]

\* stats.totalScans++, scamsDetected++ or safeEmails++, categoryCounts
updateStats(st, saved) ==
    [totalScans |-> st.totalScans + 1,
     scamsDetected |->
        IF countsAsScam(saved.score) THEN st.scamsDetected + 1
        ELSE st.scamsDetected,
     safeEmails |->
        IF countsAsScam(saved.score) THEN st.safeEmails
        ELSE st.safeEmails + 1,
     categoryCounts |-> countCategory(st.categoryCounts, saved.category)]

\* saveScanResult(result) / saveResultToStorage(result)
SaveResult ==
    /\ storeClock < MaxSaves
    /\ scanHistory' =
          popOverLimit(unshift(scanHistory, ResultAt(saveFeed, storeClock),
                               storeClock + 1))
    /\ stats' = updateStats(stats, ResultAt(saveFeed, storeClock))
    /\ storeClock' = storeClock + 1
    /\ UNCHANGED <<saveFeed, mainVars, linkVars, catVars, aggVars, callVars,
                   flightVars, lateVars>>

\* case "CLEAR_HISTORY": case "RESET_STATS":
ResetStats ==
    /\ scanHistory' = <<>>
    /\ stats' = ZeroStats
    /\ UNCHANGED <<storeClock, saveFeed, mainVars, linkVars, catVars, aggVars,
                   callVars, flightVars, lateVars>>

StoreInit ==
    /\ \E feed \in Feeds : StoreAtRest(feed)
    /\ EngineAtRest(NoEmail)
    /\ fpTieDown = FALSE
    /\ LinkAtRest(PlainParts("example.org"))
    /\ ClassifierAtRest(SCAM_CATEGORIES, "", [textScore |-> 0, extra |-> FALSE])
    /\ Aggregated(ZeroScores, "none", FALSE)
    /\ CallAtRest(NoCall)
    /\ flights = NoFlights
    /\ LateAtRest

StoreNext ==
    \/ SaveResult
    \/ ResetStats

StoreSpec == StoreInit /\ [][StoreNext]_vars

(***************************************************************************)
(* Two calls of analyze in flight together (PairSpec).  analyze is async   *)
(* and yields at the await of _nlpPhishingScore inside analyzeText: the    *)
(* steps of two calls interleave there, and with loadPhishingModel.        *)
(* textResult, urlResult, senderResult, finalScore and result are locals   *)
(* of each call; the engine object holds phishingModel alone.              *)
(***************************************************************************)
\* The messages scanned together
PairEmails ==
    { [body |-> BodyActNow, subject |-> Null, sender |-> "security@bank-alert.xyz",
       displayName |-> "Bank of America", urls |-> <<>>],
      [body |-> BodyStandup, subject |-> Null, sender |-> "colleague@company.com",
       displayName |-> "Colleague", urls |-> <<>>],
      [body |-> "", subject |-> Null, sender |-> "not-an-address",
       displayName |-> Null, urls |-> <<"http://paypa1.com">>],
      [body |-> Null, subject |-> "URGENT: Account Suspension Notice",
       sender |-> Null, displayName |-> Null, urls |-> <<>>] }

\* A call of analyze before its first step
NewFlight(e, tieDown, scanId) ==
    [emailData |-> e, tieDown |-> tieDown, scanId |-> scanId, pc |-> "idle",
     nlpPercent |-> 0, result |-> NoResult]

\* analyzeText of a call with its own arguments
flightText(f) ==
    analyzeText(f.emailData.body,
                IF f.emailData.subject = Null THEN "" ELSE f.emailData.subject,
                senderDomainOf(f.emailData.sender), f.nlpPercent)

\* The call ends: its promise rejects, or resolves with the result
settle(f, textResult) ==
    IF textResult.threw
    THEN [f EXCEPT !.pc = "threw"]
    ELSE [f EXCEPT !.pc = "done",
                   !.result = buildResult(f.emailData, textResult, f.tieDown, f.scanId)]

\* The locals of the call kept on the engine: every call in flight sees them
suspendShared(fs, i, nlp) ==
    [j \in DOMAIN fs |-> [fs[j] EXCEPT !.pc = "awaitText", !.nlpPercent = nlp]]

\* Call i runs to the await, its locals its own
suspend(fs, i, nlp) ==
    [fs EXCEPT ![i] = [fs[i] EXCEPT !.pc = "awaitText", !.nlpPercent = nlp]]

\* Call i of analyze up to the await in analyzeText
FlightBegin(i) ==
    /\ flights[i].pc = "idle"
    /\ flights' = suspend(flights, i, nlpPhishingScore(phishingModel = "model"))
    /\ UNCHANGED <<mainVars, linkVars, catVars, aggVars, callVars, storeVars, lateVars>>

\* Call i from the await on
FlightResume(i) ==
    /\ flights[i].pc = "awaitText"
    /\ flights' = [flights EXCEPT ![i] = settle(flights[i], flightText(flights[i]))]
    /\ UNCHANGED <<mainVars, linkVars, catVars, aggVars, callVars, storeVars, lateVars>>

PairInit ==
    /\ \E e1, e2 \in PairEmails, t1, t2 \in BOOLEAN :
           flights = <<NewFlight(e1, t1, 1), NewFlight(e2, t2, 2)>>
    /\ EngineAtRest(NoEmail)
    /\ fpTieDown = FALSE
    /\ LinkAtRest(PlainParts("example.org"))
    /\ ClassifierAtRest(SCAM_CATEGORIES, "", [textScore |-> 0, extra |-> FALSE])
    /\ Aggregated(ZeroScores, "none", FALSE)
    /\ CallAtRest(NoCall)
    /\ StoreAtRest(FirstFeed)
    /\ LateAtRest

PairNext ==
    \/ \E i \in DOMAIN flights : FlightBegin(i)
    \/ \E i \in DOMAIN flights : FlightResume(i)
    \/ LoadPhishingModel

PairSpec == PairInit /\ [][PairNext]_vars

(***************************************************************************)
(* Saves in flight together (RaceSpec).  saveScanResult awaits             *)
(* chrome.storage.local.get, changes what it read and awaits set: another  *)
(* save, or the reset of the message router, may be served between the     *)
(* two.  handleDOMChange and the SAVE_RESULT handler start a save without  *)
(* awaiting it.                                                            *)
(***************************************************************************)
\* A call of saveScanResult before its get is served
NewSave(r) == [saved |-> r, pc |-> "called", data |-> Null, clearsAtSet |-> 0]

\* The storage after one earlier save
EarlierHistory == unshift(<<>>, SavedResults[1], 1)

EarlierStats == updateStats(ZeroStats, SavedResults[1])

\* const data = await chrome.storage.local.get(['scanHistory', 'stats'])
SaveGet(i) ==
    /\ overlap.saves[i].pc = "called"
    /\ overlap' = [overlap EXCEPT !.saves[i].pc = "read",
                                  !.saves[i].data =
                                      [scanHistory |-> scanHistory, stats |-> stats]]
    /\ UNCHANGED <<storeVars, mainVars, linkVars, catVars, aggVars, callVars,
                   flightVars, contentVars, debounceVars>>

\* The rest of saveScanResult: history and stats of data changed, then
\* await chrome.storage.local.set({ scanHistory: history, stats })
SaveSet(i) ==
    /\ overlap.saves[i].pc = "read"
    /\ scanHistory' =
          popOverLimit(unshift(overlap.saves[i].data.scanHistory,
                               overlap.saves[i].saved, storeClock + 1))
    /\ stats' = updateStats(overlap.saves[i].data.stats, overlap.saves[i].saved)
    /\ storeClock' = storeClock + 1
    /\ overlap' = [overlap EXCEPT !.saves[i].pc = "done",
                                  !.saves[i].clearsAtSet = overlap.clears]
    /\ UNCHANGED <<saveFeed, mainVars, linkVars, catVars, aggVars, callVars,
                   flightVars, contentVars, debounceVars>>

\* case "CLEAR_HISTORY": case "RESET_STATS": handled once
ClearStorage ==
    /\ overlap.clears = 0
    /\ scanHistory' = <<>>
    /\ stats' = ZeroStats
    /\ overlap' = [overlap EXCEPT !.clears = 1]
    /\ UNCHANGED <<storeClock, saveFeed, mainVars, linkVars, catVars, aggVars,
                   callVars, flightVars, contentVars, debounceVars>>

RaceInit ==
    /\ \E r1, r2 \in DOMAIN SavedResults :
           overlap = [saves |-> <<NewSave(SavedResults[r1]), NewSave(SavedResults[r2])>>,
                      clears |-> 0]
    /\ scanHistory = EarlierHistory
    /\ stats = EarlierStats
    /\ storeClock = 1
    /\ saveFeed = FirstFeed
    /\ EngineAtRest(NoEmail)
    /\ fpTieDown = FALSE
    /\ LinkAtRest(PlainParts("example.org"))
    /\ ClassifierAtRest(SCAM_CATEGORIES, "", [textScore |-> 0, extra |-> FALSE])
    /\ Aggregated(ZeroScores, "none", FALSE)
    /\ CallAtRest(NoCall)
    /\ flights = NoFlights
    /\ ContentAtRest(Null)
    /\ DebounceAtRest

RaceNext ==
    \/ \E i \in DOMAIN overlap.saves : SaveGet(i)
    \/ \E i \in DOMAIN overlap.saves : SaveSet(i)
    \/ ClearStorage

RaceSpec == RaceInit /\ [][RaceNext]_vars

(***************************************************************************)
(* The content script (ContentSpec): handleDOMChange and the MANUAL_SCAN   *)
(* listener of content.js.  openEmail is the text of the open message as   *)
(* cleanText returns it: lower-case letters and single spaces here.        *)
(***************************************************************************)
\* str.charCodeAt(i), for the characters of the bodies shown
charCodeAt(c) == IF c = " " THEN 32 ELSE 96 + IndexFrom(LowerLetters, c, 1)

\* hash = ((hash << 5) - hash) + char; hash |= 0: the 32 bits of hash * 31 +
\* char, held as two halves of 16 bits
hashStep(h, code) ==
    [lo |-> (h.lo * 31 + code) % 65536,
     hi |-> (h.hi * 31 + (h.lo * 31 + code) \div 65536) % 65536]

\* The loop of simpleHash over the characters i..n of str, entered with hash
\* h: the first half of the range, then the second
RECURSIVE hashSpan(_, _, _, _)
hashSpan(h, str, i, n) ==
    IF i > n THEN h
    ELSE IF i = n THEN hashStep(h, charCodeAt(CharAt(str, i)))
    ELSE CHOOSE last \in {hashSpan(mid, str, (i + n) \div 2 + 1, n) :
                              mid \in {hashSpan(h, str, i, (i + n) \div 2)}} : TRUE

\* The two halves read as a signed 32-bit integer
toInt32(h) ==
    IF h.hi >= 32768 THEN (h.hi - 65536) * 65536 + h.lo ELSE h.hi * 65536 + h.lo

Base36Digits == "0123456789abcdefghijklmnopqrstuvwxyz"

RECURSIVE base36(_)
base36(n) ==
    IF n < 36 THEN CharAt(Base36Digits, n + 1)
    ELSE base36(n \div 36) \o CharAt(Base36Digits, (n % 36) + 1)

\* The digits of m + 1, which for m = 2^31 - 1 is no 32-bit integer
base36Succ(m) ==
    (IF m \div 36 + (IF m % 36 = 35 THEN 1 ELSE 0) = 0 THEN ""
     ELSE base36(m \div 36 + (IF m % 36 = 35 THEN 1 ELSE 0)))
    \o CharAt(Base36Digits, (((m % 36) + 1) % 36) + 1)

\* hash.toString(36)
toString36(n) == IF n >= 0 THEN base36(n) ELSE "-" \o base36Succ(-(n + 1))

\* simpleHash(str)
simpleHash(str) == toString36(toInt32(hashSpan([hi |-> 0, lo |-> 0], str, 1, Len(str))))

\* emailData.body.substring(0, 200)
first200(body) == SubSeq(body, 1, Min(Len(body), 200))

\* Two long messages alike in their first 200 characters
LongBodyX == Repeat("a", 200) \o " first ending"

LongBodyY == Repeat("a", 200) \o " second ending"

\* What the page may show: no message, a text too short to analyze, messages
ShownEmails ==
    {Null, "too short", "your account is suspended", "weekly standup at ten",
     LongBodyX, LongBodyY}

\* extractEmailData: null with no message open or a text under 10 characters
extractEmailData(shown) ==
    IF shown = Null \/ Len(shown) < 10 THEN [found |-> FALSE]
    ELSE [found |-> TRUE, body |-> shown]

\* emailId === lastScannedEmailId
alreadyScanned(emailId, last) == emailId = last

\* What PhishAIEngine.analyze(emailData) hands back to the handler, which does
\* not await it: the result itself from the synchronous engines, a promise
\* from the async one
AnalyzeReturns ==
    { [promise |-> TRUE] } \cup { [promise |-> FALSE, score |-> sc] : sc \in {8, 40} }

\* result.score < 15; the score of a promise is undefined and the comparison false
belowBannerScore(returned) == IF returned.promise THEN FALSE ELSE returned.score < 15

\* injectWarningBanner: "none" when it returns before building the banner,
\* "throws" when buildBannerContent reads explanation.details of a promise
injectWarningBanner(returned, containerFound) ==
    IF belowBannerScore(returned) \/ ~containerFound THEN "none"
    ELSE IF returned.promise THEN "throws"
    ELSE "shown"

\* The scan of handleDOMChange: analyze, injectWarningBanner, saveScanResult,
\* sendMessage SCAN_COMPLETE; an exception of the banner ends the handler
afterBanner(emailId, banner) ==
    IF banner = "throws" THEN << [kind |-> "throw", emailId |-> emailId] >>
    ELSE (IF banner = "shown" THEN << [kind |-> "banner", emailId |-> emailId] >>
          ELSE << >>)
         \o << [kind |-> "save", emailId |-> emailId],
               [kind |-> "notify", emailId |-> emailId] >>

scanEffects(emailId, returned, containerFound) ==
    << [kind |-> "scan", emailId |-> emailId] >>
    \o afterBanner(emailId, injectWarningBanner(returned, containerFound))

\* handleDOMChange, from lastScannedEmailId = last with log done: the new
\* lastScannedEmailId and the log
handleWithId(emailId, last, done, returned, containerFound) ==
    IF alreadyScanned(emailId, last) THEN [last |-> last, effects |-> done]
    ELSE [last |-> emailId,
          effects |-> done \o scanEffects(emailId, returned, containerFound)]

\* const emailId = simpleHash(emailData.body.substring(0, 200))
emailIdOf(extracted) ==
    IF extracted.found THEN simpleHash(first200(extracted.body)) ELSE Null

handleDOMChange(extracted, emailId, last, done, returned, containerFound) ==
    IF ~extracted.found THEN [last |-> last, effects |-> done]
    ELSE handleWithId(emailId, last, done, returned, containerFound)

\* Scans and resets one behaviour goes through
MaxLogged == 3

ScansLogged ==
    Cardinality({k \in DOMAIN effects : effects[k].kind \in {"scan", "reset"}})

\* The handler run on the page as it is, for each return of the engine and
\* each state of the banner's container
Handled(last, done) ==
    UNION { { handleDOMChange(extractEmailData(openEmail), emailId, last, done,
                              returned, containerFound) :
                returned \in AnalyzeReturns, containerFound \in BOOLEAN } :
            emailId \in {emailIdOf(extractEmailData(openEmail))} }

\* The page comes to show another message, or none
ShowEmail ==
    /\ \E b \in ShownEmails : b # openEmail /\ openEmail' = b
    /\ UNCHANGED <<lastScannedEmailId, effects>>
    /\ UNCHANGED <<mainVars, linkVars, catVars, aggVars, callVars, storeVars,
                   flightVars, raceVars, debounceVars>>

\* The observer's callback runs after a change of the page
DOMChange ==
    /\ ScansLogged < MaxLogged
    /\ \E handled \in Handled(lastScannedEmailId, effects) :
          /\ lastScannedEmailId' = handled.last
          /\ effects' = handled.effects
    /\ UNCHANGED <<openEmail, mainVars, linkVars, catVars, aggVars, callVars, storeVars,
                   flightVars, raceVars, debounceVars>>

\* message.type === "MANUAL_SCAN": lastScannedEmailId = null; handleDOMChange()
ManualScan ==
    /\ ScansLogged < MaxLogged
    /\ \E handled \in Handled(Null, effects \o <<[kind |-> "reset", emailId |-> Null]>>) :
          /\ lastScannedEmailId' = handled.last
          /\ effects' = handled.effects
    /\ UNCHANGED <<openEmail, mainVars, linkVars, catVars, aggVars, callVars, storeVars,
                   flightVars, raceVars, debounceVars>>

ContentInit ==
    /\ \E b \in ShownEmails : ContentAtRest(b)
    /\ EngineAtRest(NoEmail)
    /\ fpTieDown = FALSE
    /\ LinkAtRest(PlainParts("example.org"))
    /\ ClassifierAtRest(SCAM_CATEGORIES, "", [textScore |-> 0, extra |-> FALSE])
    /\ Aggregated(ZeroScores, "none", FALSE)
    /\ CallAtRest(NoCall)
    /\ StoreAtRest(FirstFeed)
    /\ flights = NoFlights
    /\ overlap = NoOverlap
    /\ DebounceAtRest

ContentNext ==
    \/ ShowEmail
    \/ DOMChange
    \/ ManualScan

ContentSpec == ContentInit /\ [][ContentNext]_vars

(***************************************************************************)
(* The debounced wrapper (DebounceSpec)                                    *)
(***************************************************************************)

\* Calls of the wrapper in one behaviour
MaxCalls == 3

\* The time one behaviour runs over
MaxTime == 7

\* The wait handed to debounce, in units of time
WaitTime == 2

\* A wrapper that leaves the timer of the call before pending
clearTimeoutNot(table, id) == table

\* clearTimeout(timeout): the timer of that id is no longer pending
clearTimeout(table, id) == { t \in table : t.id # id }

\* setTimeout(later, wait), later holding the arguments of this call
setTimeout(table, id, args, wait) ==
    table \cup { [id |-> id, due |-> clock + wait, args |-> args] }

\* executedFunction(...args): clearTimeout(timeout); timeout = setTimeout(later, wait).
\* The call's number stands for its arguments and for the id of its timer.
ExecutedFunction ==
    /\ Len(calls) < MaxCalls
    /\ clock + WaitTime <= MaxTime
    /\ timers' = setTimeout(clearTimeout(timers, timeout), Len(calls) + 1,
                            Len(calls) + 1, WaitTime)
    /\ timeout' = Len(calls) + 1
    /\ calls' = Append(calls, clock)
    /\ UNCHANGED <<clock, invoked>>
    /\ UNCHANGED <<mainVars, linkVars, catVars, aggVars, callVars, storeVars,
                   flightVars, raceVars, contentVars>>

\* later(): clearTimeout(timeout); func(...args). A timer runs no sooner than
\* its wait, and leaves the table as it runs.
Later ==
    /\ \E t \in timers :
          /\ clock >= t.due
          /\ timers' = clearTimeout(timers \ {t}, timeout)
          /\ invoked' = Append(invoked, [args |-> t.args, at |-> clock,
                                         after |-> Len(calls)])
    /\ UNCHANGED <<clock, timeout, calls>>
    /\ UNCHANGED <<mainVars, linkVars, catVars, aggVars, callVars, storeVars,
                   flightVars, raceVars, contentVars>>

\* Time passes
Tick ==
    /\ clock < MaxTime
    /\ clock' = clock + 1
    /\ UNCHANGED <<timeout, timers, calls, invoked>>
    /\ UNCHANGED <<mainVars, linkVars, catVars, aggVars, callVars, storeVars,
                   flightVars, raceVars, contentVars>>

DebounceInit ==
    /\ DebounceAtRest
    /\ EngineAtRest(NoEmail)
    /\ fpTieDown = FALSE
    /\ LinkAtRest(PlainParts("example.org"))
    /\ ClassifierAtRest(SCAM_CATEGORIES, "", [textScore |-> 0, extra |-> FALSE])
    /\ Aggregated(ZeroScores, "none", FALSE)
    /\ CallAtRest(NoCall)
    /\ StoreAtRest(FirstFeed)
    /\ flights = NoFlights
    /\ overlap = NoOverlap
    /\ ContentAtRest(Null)

DebounceNext ==
    \/ ExecutedFunction
    \/ Later
    \/ Tick

\* Time goes on, and a timer that is due runs
DebounceSpec ==
    DebounceInit /\ [][DebounceNext]_vars /\ WF_vars(Tick) /\ WF_vars(Later)

(***************************************************************************)
(* Properties of analyze (Spec)                                            *)
(***************************************************************************)
ScoreRange == 0..100

\* C1: every component score of a result (text, worst URL, each flagged URL,
\* sender) and its final score is an integer from 0 to 100.
C1_ScoresInRange ==
    result.present =>
        /\ result.score \in ScoreRange
        /\ result.details.textScore \in ScoreRange
        /\ result.details.urlScore \in ScoreRange
        /\ result.details.senderScore \in ScoreRange
        /\ \A i \in 1..Len(result.details.flaggedURLs) :
               result.details.flaggedURLs[i].score \in ScoreRange

\* A result whose text score and URL score both sit at the cap
C1_Witness ==
    /\ result.present
    /\ result.details.textScore = 100
    /\ result.details.urlScore = 100
    /\ Len(result.details.flaggedURLs) = 2

\* The message of scenario A: a body with the three phrases, the sender and
\* display name given, no URL
IsScenarioA(e) ==
    /\ e.body # Null
    /\ Includes(ToLowerCase(e.body), "act now")
    /\ Includes(ToLowerCase(e.body), "suspended")
    /\ Includes(ToLowerCase(e.body), "click here to verify")
    /\ e.sender = "security@bank-alert.xyz"
    /\ e.displayName = "Bank of America"
    /\ e.urls = <<>>

\* C5: analyze on scenario A returns the High-Risk band (score at least 70),
\* the category "Banking/Financial Scam", and flags that include URGENCY,
\* ACTION and the suspicious sender extension.
C5_ScenarioA ==
    (IsScenarioA(emailData) /\ pc = "done") =>
        /\ result.score >= 70
        /\ result.riskLevel = "High Risk"
        /\ result.category = "Banking/Financial Scam"
        /\ HasCode(result.details.textFlags, "URGENCY")
        /\ HasCode(result.details.textFlags, "ACTION")
        /\ \E i \in 1..Len(result.details.senderFlags) :
               StartsWith(result.details.senderFlags[i],
                          "Sender domain uses suspicious extension")

\* The message of scenario B
ScenarioB ==
    [body |-> BodyStandup, subject |-> Null, sender |-> "colleague@company.com",
     displayName |-> "Colleague", urls |-> <<>>]

Unnamed(r) == [r EXCEPT !.scanId = 0]

\* C10: two calls of analyze on the same input return results equal in every
\* field (final score, band, category, component scores, flags, explanation)
\* but scanId.
C10_Deterministic ==
    (pc = "done" /\ prevResult.present) => Unnamed(result) = Unnamed(prevResult)

\* A second result on the same message, the model having loaded meanwhile
C10_Witness ==
    /\ pc = "done"
    /\ prevResult.present
    /\ prevResult.scanId = 1
    /\ result.scanId = 2
    /\ result.score > 0
    /\ phishingModel = "model"

(***************************************************************************)
(* Properties of the link analyzer (LinkSpec)                              *)
(***************************************************************************)
\* The parts make an http(s) URL
HasHostname(parts) == parts.scheme \in Schemes

\* The hostname of the URL, as the URL parser gives it
HostnameOf(parts) == ToLowerCase(parts.host)

\* The hostname equals, or is a subdomain of, an allow-listed domain
UnderTrusted(parts) ==
    /\ HasHostname(parts)
    /\ \E t \in 1..Len(TRUSTED_DOMAINS) :
           \/ HostnameOf(parts) = TRUSTED_DOMAINS[t]
           \/ EndsWith(HostnameOf(parts), "." \o TRUSTED_DOMAINS[t])

\* C2: a URL whose hostname equals or is a subdomain of an allow-listed
\* domain gets score 0 and the single flag "Verified trusted domain" from
\* analyzeURL, whatever else in the URL would raise a flag.
C2_TrustedScoresZero ==
    (linkResult.present /\ UnderTrusted(urlParts)) =>
        linkResult.value = [score |-> 0, flags |-> <<TrustedFlag>>]

\* A trusted URL analysed on which the IP pattern and the length check match
C2_Witness ==
    /\ linkResult.present
    /\ UnderTrusted(urlParts)
    /\ urlParts.host = "1.2.3.4.google.com"
    /\ IP_ADDRESS_test(UrlOf(urlParts))
    /\ Len(UrlOf(urlParts)) > 150

\* a and b are at most k single-character edits apart
RECURSIVE WithinEdits(_, _, _)
WithinEdits(a, b, k) ==
    IF k < 0 THEN FALSE
    ELSE IF Len(a) = 0 THEN Len(b) <= k
    ELSE IF Len(b) = 0 THEN Len(a) <= k
    ELSE IF Head(a) = Head(b) THEN WithinEdits(Tail(a), Tail(b), k)
    ELSE \/ WithinEdits(Tail(a), b, k - 1)
         \/ WithinEdits(a, Tail(b), k - 1)
         \/ WithinEdits(Tail(a), Tail(b), k - 1)

\* The hostname without its last label
BaseOf(parts) == domainBase(HostnameOf(parts))

\* The brands at edit distance 1 or 2 from the base of the hostname
BrandsNear(parts) ==
    {b \in Brands : BaseOf(parts) # b /\ WithinEdits(BaseOf(parts), b, 2)}

TyposquatFlagged(flags) ==
    \E i \in 1..Len(flags) : StartsWith(flags[i], "Possible typosquatting")

\* The points of the checks of analyzeURL other than the typosquat check
OtherPoints(parts) ==
    SumHits(URLChecksWith(UrlOf(parts), HostnameOf(parts),
                          [isTyposquat |-> FALSE, intendedDomain |-> Null]), 1)

\* analyzeURL raised the typosquat flag and its 35 points
TyposquatScored(parts, r) ==
    /\ TyposquatFlagged(r.flags)
    /\ r.score = Min(OtherPoints(parts) + 35, 100)

\* C3 as stated: every non-trusted hostname whose base is at edit distance 1
\* or 2 from a brand of the typosquat map gets the typosquat flag and 35
\* points from analyzeURL.
C3_AnyNearBrandFlagged ==
    (/\ linkResult.present
     /\ HasHostname(urlParts)
     /\ ~UnderTrusted(urlParts)
     /\ BrandsNear(urlParts) # {}) => TyposquatScored(urlParts, linkResult.value)

\* C3: every non-trusted hostname whose base is at edit distance 1 or 2 from
\* a brand of the typosquat map and contains that brand's first three
\* characters gets the typosquat flag and 35 points (the score capped at 100)
\* from analyzeURL.
C3_NearBrandWithPrefixFlagged ==
    (/\ linkResult.present
     /\ HasHostname(urlParts)
     /\ ~UnderTrusted(urlParts)
     /\ \E b \in BrandsNear(urlParts) :
            Includes(BaseOf(urlParts), SubSeq(b, 1, Min(3, Len(b)))))
    => TyposquatScored(urlParts, linkResult.value)

\* A look-alike two substitutions away from "google", none of the listed
\* fakes, analysed and flagged
C3_Witness ==
    /\ linkResult.present
    /\ urlParts.host = "gooxqe.com"
    /\ "google" \in BrandsNear(urlParts)
    /\ ~WithinEdits(BaseOf(urlParts), "google", 1)
    /\ linkResult.value.score = 35

\* C4: a URL whose hostname base is exactly a brand of the typosquat map is
\* never given the typosquat flag by analyzeURL.
C4_ExactBrandUnflagged ==
    (/\ linkResult.present
     /\ HasHostname(urlParts)
     /\ BaseOf(urlParts) \in Brands) => ~TyposquatFlagged(linkResult.value.flags)

\* C7: for the single URL http://192.168.1.5/login analyzeAllURLs returns
\* score 55 (40 for the IP address, 15 for the path), exactly the two flags
\* of those checks, and urlCount 1.
C7_ScenarioC ==
    (linkAllResult.present /\ UrlOf(urlParts) = UrlIpLogin) =>
        /\ linkAllResult.value.score = 55
        /\ linkAllResult.value.flags =
               <<"Uses IP address instead of domain name",
                 "URL path contains login/verification keywords">>
        /\ linkAllResult.value.urlCount = 1

\* The list holding http://192.168.1.5/login analysed
C7_Witness ==
    /\ linkAllResult.present
    /\ UrlOf(urlParts) = UrlIpLogin
    /\ Len(linkAllResult.value.flaggedURLs) = 1

(***************************************************************************)
(* Properties of the aggregation (AggSpec)                                 *)
(***************************************************************************)
\* C8: with the weights fixed, raising one component score while the other
\* two stay as they are never lowers the final score.
C8_Monotone == [][aggFinal' >= aggFinal]_vars

\* The sender score raised to 2 with the other two at 0: the weighted sum is
\* half way between 0 and 1 and the final score stays 0
C8_Witness ==
    /\ aggRaised = "SENDER"
    /\ aggScores = [TEXT |-> 0, URL |-> 0, SENDER |-> 2]
    /\ aggFinal = 0

(***************************************************************************)
(* Properties of the classifier (CatSpec)                                  *)
(***************************************************************************)
\* The weighted match score of category i of the table for the text
ScoreIn(i) == MatchScoreFrom(ToLowerCase(catText), catTable[i], 1)

\* Category i has the best score of the table
IsTop(i) == \A j \in 1..Len(catTable) : ScoreIn(j) <= ScoreIn(i)

\* C9: when two categories share the best weighted match score, the one of
\* lower severity is not the one selected: the category returned has the
\* best score and, among the categories with that score, the highest
\* severity, in whatever order the table is iterated.
C9_TieToHigherSeverity ==
    (catResult.present /\ catResult.value.found) =>
        \E s \in 1..Len(catTable) :
            /\ catResult.value.key = catTable[s].key
            /\ IsTop(s)
            /\ \A j \in 1..Len(catTable) :
                   IsTop(j) => catTable[j].severity <= catTable[s].severity

\* Two categories tie at the best score, the later one in the table has the
\* higher severity, and it is the one returned
C9_Witness ==
    /\ catResult.present
    /\ catResult.value.found
    /\ \E i, j \in 1..Len(catTable) :
           /\ i < j
           /\ IsTop(i) /\ IsTop(j)
           /\ ScoreIn(i) = 2
           /\ catTable[j].severity > catTable[i].severity
           /\ catResult.value.key = catTable[j].key

\* C11: analyze never aborts: whatever fields of the input record are absent
\* (subject, sender, display name, URL list, or the body under a subject), the
\* call returns a ScanResult and raises nothing to its caller.
C11_NeverAborts == pc # "threw"

(***************************************************************************)
(* Properties of single calls (CallSpec)                                   *)
(***************************************************************************)
\* C12: with no tenant id, an unknown tenant or no configuration helper,
\* analyze completes, aggregates with the default weights 0.35 / 0.40 / 0.25
\* and bands the score by the default thresholds.
C12_FallsBackToDefaults ==
    (callIn.kind = "analyze" /\ callOut.present) =>
        /\ ~callOut.value.threw
        /\ callOut.value.weights = [TEXT |-> 35, URL |-> 40, SENDER |-> 25]
        /\ callOut.value.result.score =
               roundScore(35 * callOut.value.result.details.textScore
                          + 40 * callOut.value.result.details.urlScore
                          + 25 * callOut.value.result.details.senderScore,
                          callIn.tieDown)
        /\ callOut.value.result.riskLevel =
               (IF callOut.value.result.score <= 29 THEN "Safe"
                ELSE IF callOut.value.result.score <= 69 THEN "Caution"
                ELSE "High Risk")

\* The text score of the checks other than the classifier's
ScoreWithoutNlp(c) ==
    Min(SumHits(Tail(TextChecks(fullTextOf(c.body, c.subject), c.body, c.senderDomain, 0)),
                1), 100)

BandRank(label) == IF label = "Safe" THEN 0 ELSE IF label = "Caution" THEN 1 ELSE 2

\* C14: formatRiskResult gives every score from 0 to 100 exactly one band,
\* Safe exactly for 0..29, Caution exactly for 30..69, High Risk exactly for
\* 70..100, and no lower score gets a higher band.
C14_BandsPartitionScores ==
    (callIn.kind = "band" /\ callOut.present) =>
        /\ callOut.value.label \in {"Safe", "Caution", "High Risk"}
        /\ callOut.value.label = "Safe" <=> callIn.score \in 0..29
        /\ callOut.value.label = "Caution" <=> callIn.score \in 30..69
        /\ callOut.value.label = "High Risk" <=> callIn.score \in 70..100
        /\ \A lower \in 0..callIn.score :
               BandRank(formatRiskResult(lower).label) <= BandRank(callOut.value.label)

\* The lowest score of the top band has been banded
C14_Witness ==
    /\ callIn.kind = "band"
    /\ callIn.score = 70
    /\ callOut.present
    /\ callOut.value.label = "High Risk"
    /\ callOut.value.color = "#ef4444"

\* The per-URL records of the URLs of a list that score above 0, in list order
RECURSIVE FlaggedOf(_)
FlaggedOf(urls) ==
    IF Len(urls) = 0 THEN <<>>
    ELSE (IF analyzeURL(Head(urls)).score > 0
          THEN << [url |-> truncateURL(Head(urls)),
                   score |-> analyzeURL(Head(urls)).score,
                   flags |-> analyzeURL(Head(urls)).flags] >>
          ELSE <<>>)
         \o FlaggedOf(Tail(urls))

PerUrlScores(urls) == {analyzeURL(urls[i]).score : i \in 1..Len(urls)}

PerUrlFlags(urls) ==
    UNION {{analyzeURL(urls[i]).flags[k] : k \in 1..Len(analyzeURL(urls[i]).flags)} :
           i \in 1..Len(urls)}

\* Score, flags and urlCount of r are the maximum, the duplicate-free union
\* and the length for the list urls
ReducesList(urls, r) ==
    /\ r.score \in PerUrlScores(urls) \cup {0}
    /\ \A s \in PerUrlScores(urls) : s <= r.score
    /\ {r.flags[k] : k \in 1..Len(r.flags)} = PerUrlFlags(urls)
    /\ \A j, k \in 1..Len(r.flags) : j # k => r.flags[j] # r.flags[k]
    /\ r.urlCount = Len(urls)

\* C15 as stated: for every list of URLs, analyzeAllURLs returns the maximum
\* per-URL score (0 for the empty list), the duplicate-free union of the
\* per-URL flags, the list length as urlCount, and as flaggedURLs the URLs
\* scoring above 0 in input order.
C15_ReducesEveryList ==
    (callIn.kind = "urls" /\ callOut.present) =>
        /\ ReducesList(callIn.urls, callOut.value)
        /\ "flaggedURLs" \in DOMAIN callOut.value
        /\ callOut.value.flaggedURLs = FlaggedOf(callIn.urls)

\* C15, amended: the same for every list with at least one URL, each flagged
\* URL cut to 60 characters; for the empty list the result carries score 0, no
\* flags and urlCount 0, and no flaggedURLs field at all.
C15_ReducesNonEmptyList ==
    (callIn.kind = "urls" /\ callOut.present) =>
        /\ ReducesList(callIn.urls, callOut.value)
        /\ Len(callIn.urls) > 0 =>
               /\ "flaggedURLs" \in DOMAIN callOut.value
               /\ callOut.value.flaggedURLs = FlaggedOf(callIn.urls)
        /\ Len(callIn.urls) = 0 => DOMAIN callOut.value = {"score", "flags", "urlCount"}

\* A list of two URLs sharing a flag, the second one scoring lower and cut
C15_Witness ==
    /\ callIn.kind = "urls"
    /\ callIn.urls = <<UrlIpLogin, LongLoginUrl>>
    /\ callOut.present
    /\ callOut.value.score = 55
    /\ Len(callOut.value.flags) = 2
    /\ Len(callOut.value.flaggedURLs) = 2
    /\ Len(callOut.value.flaggedURLs[2].url) = 63

(***************************************************************************)
(* Properties of analyze on malformed input (Spec)                         *)
(***************************************************************************)
\* The URLs of a list that analyzeURL scores above 0
ScoringUrls(urls) == {j \in 1..Len(urls) : analyzeURL(urls[j]).score > 0}

\* C16: a non-empty URL whose hostname cannot be extracted scores exactly 50
\* with the one flag "Invalid or malformed URL" and no other check applied,
\* and the scan goes on: the other URLs of the list, the text and the sender
\* are analysed as they are without it.
C16_InvalidURLScoresFifty ==
    (pc = "done" /\ result.present) =>
        \A i \in 1..Len(emailData.urls) :
            (emailData.urls[i] # "" /\ getDomain(emailData.urls[i]) = Null) =>
                /\ \E k \in 1..Len(result.details.flaggedURLs) :
                       result.details.flaggedURLs[k] =
                           [url |-> truncateURL(emailData.urls[i]), score |-> 50,
                            flags |-> <<InvalidURLFlag>>]
                /\ result.details.urlCount = Len(emailData.urls)
                /\ Len(result.details.flaggedURLs) = Cardinality(ScoringUrls(emailData.urls))
                /\ \A j \in 1..Len(emailData.urls) :
                       result.details.urlScore >= analyzeURL(emailData.urls[j]).score
                /\ result.details.senderFlags =
                       analyzeSender(emailData.sender, emailData.displayName).flags
                /\ result.details.textScore =
                       analyzeText(emailData.body,
                                   IF emailData.subject = Null THEN "" ELSE emailData.subject,
                                   senderDomainOf(emailData.sender), 0).score

\* A scan whose first URL has no scheme and a login path, the URL after it
\* analysed as well
C16_Witness ==
    /\ pc = "done"
    /\ emailData.urls = <<SchemelessLogin, UrlIpLogin>>
    /\ emailData.body = BodyActNow
    /\ Len(result.details.flaggedURLs) = 2
    /\ result.details.flaggedURLs[1].score = 50
    /\ result.details.flaggedURLs[2].score = 55
    /\ result.details.urlScore = 55
    /\ result.details.textScore > 0

(***************************************************************************)
(* Properties of single calls, continued (CallSpec)                        *)
(***************************************************************************)
\* The address, trimmed, has no "@" or nothing after it
NoDomainPart(s) ==
    \/ IndexFrom(Trim(s), "@", 1) = 0
    \/ IndexFrom(Trim(s), "@", 1) = Len(Trim(s))

\* C17: analyzeSender returns score 0 and no flag when no address is given,
\* and score 30 with the one flag "Invalid sender email format", whatever the
\* display name, when the address has no domain part after "@".
C17_SenderAbsentOrMalformed ==
    (callIn.kind = "sender" /\ callOut.present) =>
        /\ callIn.sender \in {Null, ""} =>
               callOut.value = [score |-> 0, flags |-> <<>>]
        /\ (callIn.sender \notin {Null, ""} /\ NoDomainPart(callIn.sender)) =>
               callOut.value = [score |-> 30, flags |-> <<InvalidSenderFlag>>]

\* An address ending in "@" under a display name naming a company
C17_Witness ==
    /\ callIn.kind = "sender"
    /\ callIn.sender = "user@"
    /\ callIn.displayName = "PayPal Support"
    /\ callOut.present
    /\ callOut.value.score = 30
    /\ Len(callOut.value.flags) = 1

(***************************************************************************)
(* Properties of the classifier's threshold (CatSpec)                      *)
(***************************************************************************)
\* The threshold of a category: its minMatch, 2 when it has none, one less
\* (not below 0) when the URL or sender analyzer raised a flag
ThresholdFor(minMatch, extra) ==
    IF ~extra THEN (IF minMatch = 0 THEN 2 ELSE minMatch)
    ELSE IF minMatch = 0 THEN 1
    ELSE IF minMatch >= 1 THEN minMatch - 1
    ELSE 0

\* C18: the classifier returns a category only when its accumulated match
\* score reaches the effective threshold (minMatch, lowered by one and not
\* below 0 when the URL or sender analyzer raised a flag), or when exactly one
\* keyword matched and the text score is at least 50; otherwise it returns
\* none.  The threshold of a category without minMatch is 2.
C18_CategoryClearsThreshold ==
    (catResult.present /\ catResult.value.found) =>
        /\ \E s \in 1..Len(catTable) :
               /\ catResult.value.key = catTable[s].key
               /\ catResult.value.matchScore = ScoreIn(s)
               /\ catResult.value.minMatch = catTable[s].minMatch
        /\ \/ catResult.value.matchScore
                  >= ThresholdFor(catResult.value.minMatch, catSignals.extra)
           \/ /\ Len(catResult.value.matchedKeywords) = 1
              /\ catSignals.textScore >= 50

\* A category returned on one matched keyword: once for the text score alone,
\* the threshold of 2 not lowered
C18_Witness ==
    /\ catResult.present
    /\ catResult.value.found
    /\ catResult.value.matchScore = 1
    /\ Len(catResult.value.matchedKeywords) = 1
    /\ ~catSignals.extra
    /\ catSignals.textScore = 50

\* round(0.4 text + 0.4 URL + 0.2 sender) plus ten times the severity of the
\* category found
BlendedOf(c) ==
    (4 * c.textScore + 4 * c.urlScore + 2 * c.senderScore + 5) \div 10
    + (IF c.found THEN 10 * c.severity ELSE 0)

Corroborated(c) == c.urlScore > 20 \/ c.senderScore > 15

NoCorroborationSummary ==
    "CAUTION: Suspicious text patterns detected, but no strong sender/URL evidence"

\* C19: the summary says HIGH RISK only if the blended score is at least 70
\* and the URL score is above 20 or the sender score above 15; a blended score
\* of at least 70 without either gives the caution message about missing
\* sender/URL evidence, not HIGH RISK.
C19_HighRiskNeedsCorroboration ==
    (callIn.kind = "explain" /\ callOut.present) =>
        /\ StartsWith(callOut.value.summary, "HIGH RISK") =>
               BlendedOf(callIn) >= 70 /\ Corroborated(callIn)
        /\ (BlendedOf(callIn) >= 70 /\ ~Corroborated(callIn)) =>
               callOut.value.summary = NoCorroborationSummary

\* A blended score of 71 reached on text and the category's severity alone
C19_Witness ==
    /\ callIn.kind = "explain"
    /\ callIn.textScore = 100
    /\ callIn.urlScore = 20
    /\ callIn.senderScore = 15
    /\ callIn.found
    /\ callIn.severity = 2
    /\ callOut.present
    /\ callOut.value.summary = NoCorroborationSummary


(***************************************************************************)
(* Properties of the scan store (StoreSpec)                                *)
(***************************************************************************)
\* The entries of the history that count as scams
ScamEntries(history) == {i \in DOMAIN history : history[i].score >= 70}

\* The entries of the history saved under a category
EntriesOf(history, category) ==
    {i \in DOMAIN history : history[i].category = category}

\* The categories of the results saved
SavedCategories == {SavedResults[i].category : i \in DOMAIN SavedResults}

\* What the storage holds between two saves
StoreCounted ==
    /\ Len(scanHistory) <= 100
    /\ \A i \in 1..(Len(scanHistory) - 1) :
          scanHistory[i].timestamp > scanHistory[i + 1].timestamp
    /\ stats.totalScans = stats.scamsDetected + stats.safeEmails
    /\ Len(scanHistory) = (IF stats.totalScans < 100 THEN stats.totalScans ELSE 100)
    /\ stats.totalScans <= 100 =>
          /\ stats.scamsDetected = Cardinality(ScamEntries(scanHistory))
          /\ \A c \in SavedCategories :
                categoryCountOr(stats.categoryCounts, c)
                    = Cardinality(EntriesOf(scanHistory, c))

\* What one save, and one reset, does to the storage
StoreStep ==
    /\ stats' # stats => scanHistory' # scanHistory
    /\ (scanHistory' # scanHistory /\ scanHistory' = <<>>) =>
          /\ stats'.totalScans = 0
          /\ stats'.scamsDetected = 0
          /\ stats'.safeEmails = 0
          /\ \A c \in SavedCategories :
                categoryCountOr(stats'.categoryCounts, c) = 0
    /\ (scanHistory' # scanHistory /\ scanHistory' # <<>>) =>
          /\ scanHistory' =
                <<scanHistory'[1]>> \o
                SubSeq(scanHistory, 1,
                       IF Len(scanHistory) < 100 THEN Len(scanHistory) ELSE 99)
          /\ stats'.totalScans = stats.totalScans + 1
          /\ stats'.scamsDetected =
                stats.scamsDetected
                    + (IF scanHistory'[1].score >= 70 THEN 1 ELSE 0)
          /\ stats'.safeEmails =
                stats.safeEmails
                    + (IF scanHistory'[1].score >= 70 THEN 0 ELSE 1)
          /\ \A c \in SavedCategories :
                categoryCountOr(stats'.categoryCounts, c) =
                    categoryCountOr(stats.categoryCounts, c)
                        + (IF scanHistory'[1].category = c THEN 1 ELSE 0)

\* C20: after any sequence of saves that do not overlap, the history holds
\* at most 100 entries, newest first, the oldest leaving when a 101st
\* arrives; totalScans = scamsDetected + safeEmails counts the saves since
\* the last reset, a result being a scam exactly when its score is >= 70,
\* and categoryCounts counts the saved results of each category.
C20_HistoryAndCounters == []StoreCounted /\ [][StoreStep]_vars

\* The 101st save since the reset has pushed the oldest entry out
C20_Witness ==
    /\ stats.totalScans = 101
    /\ Len(scanHistory) = 100
    /\ scanHistory[1].timestamp = storeClock
    /\ scanHistory[100].timestamp = storeClock - 99
    /\ stats.scamsDetected > 0
    /\ stats.safeEmails > 0


(***************************************************************************)
(* Properties of analyze on an empty message (Spec)                        *)
(***************************************************************************)
\* No body text, no subject and no URLs
EmptyScan(e) ==
    /\ e.body \in {Null, ""}
    /\ e.subject \in {Null, ""}
    /\ e.urls = <<>>

\* C21: a scan with no body text, no subject and no URLs comes back from
\* analyze as the zero/safe result: final score 0, the Safe band, category
\* General and the fixed safe explanation.
C21_EmptyScanIsSafe ==
    (EmptyScan(emailData) /\ pc \in {"done", "threw"}) =>
        /\ pc = "done"
        /\ result.score = 0
        /\ result.riskLevel = RISK_LEVELS.SAFE.label
        /\ result.category = "General"
        /\ result.explanation.summary = SafeSummary
        /\ result.explanation.details = <<>>


(***************************************************************************)
(* Properties of the final score of analyze (Spec)                         *)
(***************************************************************************)
\* round(0.35 x textScore + 0.40 x urlScore + 0.25 x senderScore), a tie going up
WeightedRound(details) ==
    (35 * details.textScore + 40 * details.urlScore + 25 * details.senderScore + 50)
        \div 100

\* C22: under the identity calibration and the default weights the final
\* score of analyze is round(0.35 x textScore + 0.40 x urlScore + 0.25 x
\* senderScore), and the risk band is the band of that score.
C22_FinalScoreIsWeightedRound ==
    pc = "done" =>
        /\ result.score = WeightedRound(result.details)
        /\ result.riskLevel = formatRiskResult(WeightedRound(result.details)).label


(***************************************************************************)
(* Properties of analyzeText (CallSpec)                                    *)
(***************************************************************************)
\* The keywords of a table found in the text analyzeText matches against
HitCount(text, table) ==
    Cardinality({k \in DOMAIN table : Includes(text, ToLowerCase(table[k]))})

\* n hits at pts each, capped
PerHit(n, pts, cap) == IF n * pts < cap THEN n * pts ELSE cap

\* The contribution of each check to the text score, in the order of the
\* checks, on the scrubbed and lower-cased text and the body of call c
Contributions(text, c) ==
    << [code |-> "URGENCY", pts |-> PerHit(HitCount(text, URGENCY_KEYWORDS), 12, 30)],
       [code |-> "THREAT", pts |-> PerHit(HitCount(text, THREAT_KEYWORDS), 15, 30)],
       [code |-> "FINANCIAL", pts |-> PerHit(HitCount(text, FINANCIAL_KEYWORDS), 10, 27)],
       [code |-> "IMPERSONATION",
        pts |-> IF HitCount(text, IMPERSONATION_KEYWORDS) >= 2 THEN 15 ELSE 0],
       [code |-> "ACTION", pts |-> PerHit(HitCount(text, ACTION_KEYWORDS), 8, 25)],
       [code |-> "HINGLISH", pts |-> PerHit(HitCount(text, HINGLISH_KEYWORDS), 10, 20)],
       [code |-> "GRAMMAR", pts |-> PerHit(HitCount(text, GRAMMAR_INDICATORS), 8, 10)],
       [code |-> "CAPS",
        pts |-> IF CapsRatioHigh(calculateCapsRatio(c.body)) /\ Len(c.body) > 50
                THEN 10 ELSE 0],
       [code |-> "PUNCTUATION",
        pts |-> IF RunCount(c.body, "!") + RunCount(c.body, "?") >= 3 THEN 8 ELSE 0],
       [code |-> "DOMAIN_MISMATCH",
        pts |-> IF /\ c.senderDomain # ""
                   /\ \E k \in DOMAIN BRAND_KEYWORDS :
                          /\ Includes(text, ToLowerCase(BRAND_KEYWORDS[k]))
                          /\ ~Includes(c.senderDomain, ToLowerCase(BRAND_KEYWORDS[k]))
                THEN 20 ELSE 0] >>

RECURSIVE SumOf(_, _)
SumOf(contribs, i) ==
    IF i > Len(contribs) THEN 0 ELSE contribs[i].pts + SumOf(contribs, i + 1)

RECURSIVE CodesOf(_, _)
CodesOf(contribs, i) ==
    IF i > Len(contribs) THEN <<>>
    ELSE (IF contribs[i].pts > 0 THEN <<contribs[i].code>> ELSE <<>>)
         \o CodesOf(contribs, i + 1)

\* The text score and the flags the contributions call for
ScoredAs(contribs, r) ==
    /\ r.score = (IF SumOf(contribs, 1) < 100 THEN SumOf(contribs, 1) ELSE 100)
    /\ Len(r.flags) = Len(CodesOf(contribs, 1))
    /\ \A i \in 1..Len(r.flags) : r.flags[i].code = CodesOf(contribs, 1)[i]

LabelsInFront(parts) == Len(Split(HostnameOf(parts), ".")) - 2

\* The flag of the subdomain check is among the flags
SubdomainFlagged(flags) ==
    \E i \in 1..Len(flags) : StartsWith(flags[i], "Excessive subdomains")

\* C24: on a URL that parses and is not under a trusted domain, analyzeURL
\* raises the excess-subdomain flag (+20) exactly when the hostname has four
\* or more labels in front of its registrable domain.
C24_FourLabelsPenalised ==
    (linkResult.present /\ HasHostname(urlParts) /\ ~UnderTrusted(urlParts)) =>
        (SubdomainFlagged(linkResult.value.flags) <=> LabelsInFront(urlParts) >= 4)


(***************************************************************************)
(* Properties of the educational tips of analyze (Spec)                    *)
(***************************************************************************)
UrgencyTip == "Scammers often pressure you with urgency. Pause and verify before acting."

ThreatTip ==
    "Threatening language is a scare tactic. Legitimate organizations don't threaten arrest or fines via email."

LinkTip == "Hover over links to check the real domain before clicking."

MismatchTip == "Sender address doesn't match display name - a common impersonation trick."

FallbackTip ==
    "When in doubt, contact the organization directly using their official website or phone number."

\* The display name and the address of the sender were found to disagree
MismatchFired(details) ==
    \E i \in 1..Len(details.senderFlags) :
        StartsWith(details.senderFlags[i], "Sender mismatch")

\* Some link of the message was found suspicious
LinkFired(details) == details.urlScore > 0 /\ Len(details.urlFlags) > 0

\* The tips of the signals that fired, in the order the engine asks for them
FiredTips(details) ==
    (IF HasCode(details.textFlags, "URGENCY") THEN <<UrgencyTip>> ELSE <<>>)
    \o (IF HasCode(details.textFlags, "THREAT") THEN <<ThreatTip>> ELSE <<>>)
    \o (IF LinkFired(details) THEN <<LinkTip>> ELSE <<>>)
    \o (IF MismatchFired(details) THEN <<MismatchTip>> ELSE <<>>)

\* Some analyzer raised a flag
AnyFlag(details) ==
    Len(details.textFlags) + Len(details.urlFlags) + Len(details.senderFlags) > 0

\* C25: the tips of a scan with flags are the tips of the urgency, threat,
\* suspicious-link and sender-mismatch signals that fired; with none of
\* them, the one tip of the matched category; with no category either, the
\* generic fallback tip.
C25_TipsByPriority ==
    (pc = "done" /\ AnyFlag(result.details)) =>
        /\ FiredTips(result.details) # <<>> =>
               result.explanation.educationalTips = FiredTips(result.details)
        /\ (FiredTips(result.details) = <<>> /\ result.category = "General") =>
               result.explanation.educationalTips = <<FallbackTip>>
        /\ (FiredTips(result.details) = <<>> /\ result.category # "General") =>
               /\ Len(result.explanation.educationalTips) = 1
               /\ result.explanation.educationalTips[1] # FallbackTip


(***************************************************************************)
(* Properties of scans in flight together (PairSpec)                       *)
(***************************************************************************)
\* What call f returns when it is the only call made
AloneResult(f) ==
    settle([f EXCEPT !.nlpPercent = 0],
           analyzeText(f.emailData.body,
                       IF f.emailData.subject = Null THEN "" ELSE f.emailData.subject,
                       senderDomainOf(f.emailData.sender), 0))

\* Every call that has ended has ended as it would alone
EndsAsAlone ==
    \A i \in DOMAIN flights :
        flights[i].pc \in {"done", "threw"} =>
            /\ flights[i].pc = AloneResult(flights[i]).pc
            /\ flights[i].result = AloneResult(flights[i]).result

\* A step of one call leaves the engine's field, the input records and the
\* other call as they were
WritesOwnLocals ==
    flights' # flights =>
        /\ phishingModel' = phishingModel
        /\ \A i \in DOMAIN flights : flights'[i].emailData = flights[i].emailData
        /\ \E i \in DOMAIN flights :
               \A j \in DOMAIN flights \ {i} : flights'[j] = flights[j]

\* C26: a scan writes no shared state: the input records and the engine's
\* field are left as they were, a step of one scan changes nothing of
\* another, and scans of two messages in flight together return, in every
\* interleaving, what each returns alone.
C26_ScansShareNothing == []EndsAsAlone /\ [][WritesOwnLocals]_vars

\* Both calls have ended, the second having begun and ended while the first
\* was waiting, with the model loaded in between
C26_Witness ==
    /\ flights[1].pc = "done"
    /\ flights[2].pc = "done"
    /\ flights[1].emailData # flights[2].emailData
    /\ flights[1].result.score > 0
    /\ flights[2].result.score > 0
    /\ flights[1].result # flights[2].result
    /\ phishingModel = "model"


(***************************************************************************)
(* Properties of scores and flags in analyze (Spec)                        *)
(***************************************************************************)
\* The fixed explanation of a scan without flags
SafeExplanation ==
    [summary |-> SafeSummary, details |-> <<>>,
     educationalTips |-> <<"Always verify unexpected requests through official channels.">>]

\* C27: in the result of analyze a text, URL or sender score above 0 comes
\* with at least one flag of that analyzer, and a scan in which no analyzer
\* raised a flag has final score 0, the Safe band and the fixed safe
\* explanation with no findings.
C27_ScoreNeedsFlag ==
    pc = "done" =>
        /\ result.details.textScore > 0 => Len(result.details.textFlags) > 0
        /\ result.details.urlScore > 0 => Len(result.details.urlFlags) > 0
        /\ result.details.senderScore > 0 => Len(result.details.senderFlags) > 0
        /\ ~AnyFlag(result.details) =>
               /\ result.score = 0
               /\ result.riskLevel = RISK_LEVELS.SAFE.label
               /\ result.explanation = SafeExplanation

\* A message with a body, a sender and no links scanned without any flag
C27_Witness ==
    /\ pc = "done"
    /\ emailData.body = BodyStandup
    /\ emailData.sender = "colleague@company.com"
    /\ ~AnyFlag(result.details)
    /\ result.score = 0
    /\ result.explanation.summary = SafeSummary


(***************************************************************************)
(* Properties of saves in flight together (RaceSpec)                       *)
(***************************************************************************)
\* Every save begun has written
SavesDone == \A i \in DOMAIN overlap.saves : overlap.saves[i].pc = "done"

\* The saves that wrote after the clear was handled
SetAfterClear == {i \in DOMAIN overlap.saves : overlap.saves[i].clearsAtSet = 1}

\* C28: when saves in flight together (or with a clear) have all completed
\* no update is lost: without a clear the history holds the earlier entry
\* and both results and totalScans has gone up by 2; with a clear, what is
\* stored is what was saved after it, the earlier entry not coming back.
C28_NoUpdateLost ==
    SavesDone =>
        /\ overlap.clears = 0 =>
               /\ stats.totalScans = EarlierStats.totalScans + 2
               /\ Len(scanHistory) = Len(EarlierHistory) + 2
        /\ overlap.clears = 1 =>
               /\ stats.totalScans = Cardinality(SetAfterClear)
               /\ Len(scanHistory) = Cardinality(SetAfterClear)
               /\ \A k \in 1..Len(scanHistory) : scanHistory[k] # EarlierHistory[1]


(***************************************************************************)
(* Properties of the content script (ContentSpec)                          *)
(***************************************************************************)

ScanAt(k) == effects[k].kind = "scan"

\* The entries logged by the handler run that logged the scan at k
RunOf(k) ==
    { j \in DOMAIN effects :
        /\ j > k
        /\ \A m \in (k + 1)..j : effects[m].kind \notin {"scan", "reset"} }

KindInRun(k, kind) ==
    Cardinality({ j \in RunOf(k) :
                    effects[j].kind = kind /\ effects[j].emailId = effects[k].emailId })

\* Between two scans of one message lies a reset or the scan of another message
RescanCalledFor(j, k) ==
    \E m \in (j + 1)..(k - 1) :
        \/ effects[m].kind = "reset"
        \/ effects[m].kind = "scan" /\ effects[m].emailId # effects[j].emailId

\* No message is scanned twice without a reset or another scan in between
NoRescanInARow ==
    \A j, k \in DOMAIN effects :
        (j < k /\ ScanAt(j) /\ ScanAt(k) /\ effects[j].emailId = effects[k].emailId)
           => RescanCalledFor(j, k)

\* C29: the content script scans an open message at most once per run of DOM
\* changes showing the same message (same hash of the first 200 characters of
\* its body); the same message is scanned again only after MANUAL_SCAN reset
\* lastScannedEmailId or another message was scanned in between; and every
\* scan is followed by exactly one save and one SCAN_COMPLETE notification.
C29_ScanOncePerEmail ==
    /\ NoRescanInARow
    /\ \A k \in DOMAIN effects :
          ScanAt(k) => KindInRun(k, "save") = 1 /\ KindInRun(k, "notify") = 1


(***************************************************************************)
(* Properties of debounce (DebounceSpec)                                   *)
(***************************************************************************)

\* The wrapped function has run with the arguments of call k
InvokedWith(k) == \E i \in DOMAIN invoked : invoked[i].args = k

\* An invocation comes with the arguments of the last call made, no sooner
\* than the wait after it, and once for that call
InvokedAfterWait(i) ==
    /\ invoked[i].args = invoked[i].after
    /\ invoked[i].at >= calls[invoked[i].args] + WaitTime
    /\ \A j \in DOMAIN invoked : invoked[j].after = invoked[i].after => j = i

\* Only the timer of the last call is pending
OnlyLastPending == \A t \in timers : t.id = timeout /\ t.args = Len(calls)

Debounced ==
    /\ OnlyLastPending
    /\ \A i \in DOMAIN invoked : InvokedAfterWait(i)

\* The burst ending with call k goes on with another call or is invoked
BurstSettles(k) == (Len(calls) = k) ~> (Len(calls) > k \/ InvokedWith(k))

\* C30: a function wrapped by debounce(func, wait) runs at most once per burst
\* of calls: each new call cancels the pending timer, func is invoked only
\* after wait has elapsed with no further call, with the arguments of the last
\* call of the burst, and every burst that ends is eventually followed by
\* exactly one invocation.
C30_DebounceOncePerBurst ==
    /\ []Debounced
    /\ \A k \in 1..MaxCalls : BurstSettles(k)

\* Two calls within the wait and a third after it: the function has run twice,
\* for the second call and for the third
C30_Witness ==
    /\ Len(calls) = 3
    /\ calls[2] - calls[1] < WaitTime
    /\ calls[3] - calls[2] >= WaitTime
    /\ Len(invoked) = 2
    /\ invoked[1].args = 2
    /\ invoked[2].args = 3

=============================================================================
